---- MODULE Spec2Model ----
(***************************************************************************)
(* A model of the f-xoss transport stack: the device session (XossDevice), *)
(* the control channel (XossTransport::request_ctl / recv_ctl, CtlChannel),*)
(* the control framing (RawControlMessage), the notification pump and the  *)
(* bracketing of YMODEM file transfers by control exchanges.               *)
(*                                                                         *)
(* Process 0 is the task that runs XossDevice::new; processes 1..n are the *)
(* callers of the public operations of the session it returns.  The device *)
(* is the environment: it answers, answers wrongly, answers late, speaks   *)
(* unsolicited, or stays silent.                                           *)
(***************************************************************************)
EXTENDS Integers, Sequences, FiniteSets, TLC

(* ------------------------------ bounds --------------------------------- *)
\* CTL frames the device emits without having been asked
MaxUnsolicited == 1
\* data packets of a file transfer
MaxPackets == 1
\* notifications the BLE stack holds for the pump
MaxNotif == 1

\* the task that runs XossDevice::new, and the tasks that share the session
Opener == 0
Callers == {1, 2}
Procs == {Opener} \cup Callers
\* operations started in a run: as many as there are callers, by one caller
\* after the other or by both at once
MaxOps == Cardinality(Callers)

(* -------------------------- program constants -------------------------- *)
CTL_BUFFER_SIZE == 20
InboxDepth == 3

Idle == 4
RequestReturn == 5
Returning == 6
RequestSend == 7
Accept == 8
RequestCap == 9
ReturnCap == 10
RequestDel == 13
DelSuccess == 14
RequestStop == 31
ErrVali == 17
ErrNoFile == 18
ErrMemory == 19
ErrStatus == 20
ErrDecode == 21
TimeSet == 84
TimeSetRtn == 85
RequestMga == 119
ReturnMga == 120
StatusReturn == 255

\* ControlMessageType: every discriminant of the enum
ControlMessageType ==
    {0, Idle, RequestReturn, Returning, RequestSend, Accept, RequestCap,
     ReturnCap, RequestDel, DelSuccess, 15, RequestStop, ErrVali, ErrNoFile,
     ErrMemory, ErrStatus, ErrDecode, TimeSet, TimeSetRtn, RequestMga,
     ReturnMga, 172, 204, 205, 223, StatusReturn}

ErrorTypes == {ErrVali, ErrNoFile, ErrMemory, ErrStatus, ErrDecode}

(* ------------------------------ bytes ---------------------------------- *)
RECURSIVE Xor(_, _)
Xor(a, b) ==
    IF a = 0 /\ b = 0 THEN 0
    ELSE ((a + b) % 2) + 2 * Xor(a \div 2, b \div 2)

RECURSIVE XorFold(_, _)
XorFold(buf, acc) ==
    IF buf = <<>> THEN acc ELSE XorFold(Tail(buf), Xor(acc, Head(buf)))

\* fn calc_checksum(buf) = buf.iter().fold(0, |acc, x| acc ^ x)
calc_checksum(buf) == XorFold(buf, 0)

\* std::str::from_utf8 on the bytes the model uses: 0x00..0x7F are one-byte
\* code points, 0xF8..0xFF never occur in UTF-8
Utf8Valid(b) == \A i \in 1..Len(b) : b[i] < 128

IsDigits(s) == Len(s) > 0 /\ \A i \in 1..Len(s) : s[i] >= 48 /\ s[i] <= 57

RECURSIVE StripZeros(_)
StripZeros(s) ==
    IF Len(s) > 1 /\ Head(s) = 48 THEN StripZeros(Tail(s)) ELSE s

RECURSIVE LexLeq(_, _)
LexLeq(s, t) ==
    IF s = <<>> THEN TRUE
    ELSE IF Head(s) # Head(t) THEN Head(s) < Head(t)
    ELSE LexLeq(Tail(s), Tail(t))

\* "4294967295", u32::MAX
U32MaxDigits == <<52, 50, 57, 52, 57, 54, 55, 50, 57, 53>>

\* str::parse::<u32>: optional '+', decimal digits, no overflow
ParsesU32(s) ==
    LET d == IF Len(s) > 0 /\ s[1] = 43 THEN Tail(s) ELSE s
        z == StripZeros(d)
    IN  /\ IsDigits(d)
        /\ \/ Len(z) < Len(U32MaxDigits)
           \/ Len(z) = Len(U32MaxDigits) /\ LexLeq(z, U32MaxDigits)

(* ------------------------- values of the model ------------------------- *)
\* "f"
FileName == <<102>>
\* a file name one byte longer than a control frame has room for
LongName == [i \in 1..(CTL_BUFFER_SIZE - 1) |-> 102]
\* "g": text that is neither the file name nor a capacity
OtherBody == <<103>>
\* a body that is not UTF-8
BadUtf8 == <<255>>
\* "1/2"
CapBody == <<49, 47, 50>>
\* 01 00 <u32_le 0>: A-GNSS data missing
MgaBody == <<1, 0, 0, 0, 0, 0>>
\* 0x5F5E1000 as little-endian u32
TimeBody == <<0, 16, 94, 95>>

NoMsg == [t |-> 0, b |-> <<>>]
NoRes == [st |-> "none", why |-> "", b |-> <<>>]
Ok(b) == [st |-> "ok", why |-> "", b |-> b]
Err(why, b) == [st |-> "err", why |-> why, b |-> b]
Panic(why) == [st |-> "panic", why |-> why, b |-> <<>>]

Ev(k, t, b) == [k |-> k, t |-> t, b |-> b]

(* --------------------------- control framing --------------------------- *)
\* RawControlMessage::write into a CtlBuffer: the assert! aborts the caller
Write(t, body) ==
    IF Len(body) + 2 <= CTL_BUFFER_SIZE
    THEN [st |-> "ok", raw |-> <<t>> \o body \o <<calc_checksum(<<t>> \o body)>>]
    ELSE [st |-> "panic", raw |-> <<>>]

\* a read that leaves the checksum byte at the end of the body
ReadKeepsChecksum(buf) ==
    LET len == Len(buf) IN
    IF len < 2 THEN [st |-> "panic", why |-> "index", t |-> 0, b |-> <<>>]
    ELSE IF buf[1] \notin ControlMessageType
         THEN [st |-> "err", why |-> "UnknownType", t |-> 0, b |-> <<>>]
    ELSE IF buf[len] # calc_checksum(SubSeq(buf, 1, len - 1))
         THEN [st |-> "err", why |-> "BadChecksum", t |-> 0, b |-> <<>>]
    ELSE [st |-> "ok", why |-> "", t |-> buf[1], b |-> SubSeq(buf, 2, len)]

\* RawControlMessage::read: indexing panics below two bytes, the type is
\* converted before the checksum is compared
Read(buf) ==
    LET len == Len(buf) IN
    IF len < 2 THEN [st |-> "panic", why |-> "index", t |-> 0, b |-> <<>>]
    ELSE IF buf[1] \notin ControlMessageType
         THEN [st |-> "err", why |-> "UnknownType", t |-> 0, b |-> <<>>]
    ELSE IF buf[len] # calc_checksum(SubSeq(buf, 1, len - 1))
         THEN [st |-> "err", why |-> "BadChecksum", t |-> 0, b |-> <<>>]
    ELSE [st |-> "ok", why |-> "", t |-> buf[1], b |-> SubSeq(buf, 2, len - 1)]

\* CtlChannel::recv_ctl after a frame was taken: recv_ctl_raw copies it into
\* the 20-byte buffer (copy_from_slice panics on a longer frame), then read
RecvCtl(frame) ==
    IF Len(frame) > CTL_BUFFER_SIZE
    THEN [st |-> "panic", why |-> "copy", t |-> 0, b |-> <<>>]
    ELSE Read(frame)

\* RawControlMessage::into_result
IntoResult(m) ==
    CASE m.t = ErrVali -> Err("Validation", <<>>)
      [] m.t = ErrNoFile ->
            IF Utf8Valid(m.b) THEN Err("NoFile", m.b) ELSE Panic("utf8")
      [] m.t = ErrMemory -> Err("NoMemory", <<>>)
      [] m.t = ErrStatus ->
            IF m.b = <<0>> THEN Err("InvalidTransactionStatus", <<>>)
            ELSE IF Utf8Valid(m.b) THEN Err("InvalidFileStatus", m.b)
            ELSE Panic("utf8")
      [] m.t = ErrDecode ->
            IF Utf8Valid(m.b) THEN Err("DecodeFailed", m.b) ELSE Panic("utf8")
      [] OTHER -> Ok(m.b)

\* RawControlMessage::expect_ok
ExpectOk(m, ty) ==
    LET r == IntoResult(m) IN
    IF r.st # "ok" THEN r
    ELSE IF m.t # ty THEN Err("Unexpected", <<>>)
    ELSE Ok(m.b)

(* ------------------------------ YMODEM --------------------------------- *)
SOH == 1
EOT == 4
ACK == 6
NAK == 21
\* b'C', the receiver's request for CRC mode
CRC_C == 67

\* how a read from the UART stream inside a transfer step can end: with the
\* expected item, or with one of the failures receive_file/send_file report
\* (Elapsed is tokio::time::timeout running out)
ReadFailures == {"Elapsed", "InvalidStart", "InvalidCrc", "InvalidSeq"}
ByteFailures == {"Elapsed", "Stray"}

(* ------------------------------- state --------------------------------- *)
VARIABLES
    pc,            \* where each process is
    op,            \* the operation a process runs
    arg,           \* its file name / time argument
    req,           \* the request message request_ctl is sending
    left,          \* data packets the transfer still has to move
    seq,           \* YMODEM sequence counter of the transfer
    trace,         \* events of the running operation of a process, in order
    myRid,         \* number of the request a process wrote last
    gotRid,        \* number of the request the reply it was handed answers
    fin,           \* the operation that returned in the last step, as its caller sees it
    faulted,       \* history: an operation on the session ended in a fatal fault
    sessionLock,   \* XossDevice.transport: Mutex<XossTransport>
    innerLock,     \* XossTransport.inner: Mutex<Inner>
    streams,       \* processes holding a live UartStream
    opsStarted,    \* operations started so far
    nextRid,       \* requests written to CTL so far
    pending,       \* requests the device has not replied to
    transfers,     \* transfers the device accepted and has not reported the end of
    unsol,         \* unsolicited CTL frames emitted
    notifications, \* BLE notification stream, not yet pumped
    ctlInbox,      \* ctl_recv: mpsc::channel(3)
    ym,            \* one call of receive_file / send_file on a UART byte stream
    sh,            \* the notification pump of a transport and what it feeds
    cx,            \* a value handed to the framing functions, and what they return
    js,            \* the JSON header cell of a session and the JSON files moved
    ua,            \* the UART channel: its stream manager task and its streams
    tx,            \* the write side of one UART stream
    nw             \* one call of XossTransport::new

procVars == <<pc, op, arg, req, left, seq, trace, myRid, gotRid>>
lockVars == <<sessionLock, innerLock, streams>>
devVars == <<pending, transfers, unsol>>
sessVars == <<procVars, fin, faulted, lockVars, opsStarted, nextRid, devVars, notifications, ctlInbox>>
vars == <<sessVars, ym, sh, cx, js, ua, tx, nw>>

None == 0 - 1

\* no transfer is being looked at; no pump is being looked at
YmOff == [pc |-> "off"]
ShOff == [pump |-> "off"]
\* the part is not being looked at
Off == [pc |-> "off"]

Ops == {"memcap", "delete", "settime", "mga", "read", "write"}
TransferOps == {"read", "write"}
\* the operations that read what the transport holds and exchange nothing
PeekOps == {"battery_level", "device_info"}
\* the operations whose reply echoes the request body
EchoOps == {"read", "write", "delete", "settime"}

Msg(t, b) == [t |-> t, b |-> b]

NoFin == [p |-> None, op |-> "none", arg |-> <<>>, res |-> NoRes, trace |-> <<>>,
          myRid |-> None, gotRid |-> None]

\* the request each public operation of XossDevice issues
RequestOf(o, a) ==
    CASE o = "memcap" -> Msg(RequestCap, <<>>)
      [] o = "delete" -> Msg(RequestDel, a)
      [] o = "settime" -> Msg(TimeSet, a)
      [] o = "mga" -> Msg(RequestMga, <<>>)
      [] o = "read" -> Msg(RequestReturn, a)
      [] o = "write" -> Msg(RequestSend, a)
      [] OTHER -> Msg(StatusReturn, <<>>)

ArgsOf(o) ==
    CASE o = "delete" -> {FileName, LongName}
      [] o \in {"read", "write"} -> {FileName}
      [] o = "settime" -> {TimeBody}
      [] OTHER -> {<<>>}

\* the transport was built (XossTransport::new returned), nothing was exchanged
Fresh ==
    /\ arg = [p \in Procs |-> <<>>]
    /\ left = [p \in Procs |-> 0]
    /\ seq = [p \in Procs |-> 0]
    /\ trace = [p \in Procs |-> <<>>]
    /\ myRid = [p \in Procs |-> None]
    /\ gotRid = [p \in Procs |-> None]
    /\ fin = NoFin
    /\ faulted = FALSE
    /\ sessionLock = None
    /\ innerLock = None
    /\ streams = {}
    /\ opsStarted = 0
    /\ nextRid = 0
    /\ pending = {}
    /\ transfers = {}
    /\ unsol = 0
    /\ notifications = <<>>
    /\ ctlInbox = <<>>
    /\ ym = YmOff
    /\ sh = ShOff

\* XossDevice::new has returned a session; its callers have not started
Init ==
    /\ pc = [p \in Procs |-> IF p = Opener THEN "opened" ELSE "idle"]
    /\ op = [p \in Procs |-> "none"]
    /\ req = [p \in Procs |-> NoMsg]
    /\ Fresh
    /\ cx = Off
    /\ js = Off
    /\ ua = Off
    /\ tx = Off
    /\ nw = Off

\* XossDevice::new is about to issue StatusReturn
InitOpen ==
    /\ pc = [p \in Procs |-> IF p = Opener THEN "ctl_send" ELSE "idle"]
    /\ op = [p \in Procs |-> IF p = Opener THEN "open" ELSE "none"]
    /\ req = [p \in Procs |-> IF p = Opener THEN Msg(StatusReturn, <<>>) ELSE NoMsg]
    /\ Fresh
    /\ cx = Off
    /\ js = Off
    /\ ua = Off
    /\ tx = Off
    /\ nw = Off

(* ------------------- replies as each operation reads them --------------- *)
\* what a step decides: where the process goes and, when the operation ends
\* there, its result
Goto(next) == [next |-> next, res |-> NoRes]
Return(r) == [next |-> "return", res |-> r]

\* the `?` after request_ctl(..).await / recv_ctl(..).await
Propagate(m) == IF m.st = "panic" THEN Panic(m.why) ELSE Err(m.why, <<>>)

\* XossDevice::new, after the reply to StatusReturn
\* (variant: the state the device reports is not looked at)
new_status_unchecked(m) == Return(Ok(<<>>))

new_status(m) ==
    IF m.t # Idle THEN Goto("stop") ELSE Return(Ok(<<>>))

\* XossDevice::new, after the reply to RequestStop
new_stop(m) ==
    LET r == ExpectOk(m, Idle) IN
    Return(IF r.st = "ok" THEN Ok(<<>>) ELSE r)

\* the closure of get_memory_capacity: from_utf8, split_once('/'), two parse::<u32>
ParseCapacity(b) ==
    IF ~Utf8Valid(b) THEN Err("Utf8", <<>>)
    ELSE LET cut == {i \in 1..Len(b) : b[i] = 47} IN
         IF cut = {} THEN Err("Parse", <<>>)
         ELSE LET i == CHOOSE j \in cut : \A k \in cut : j <= k IN
              IF ParsesU32(SubSeq(b, 1, i - 1)) /\ ParsesU32(SubSeq(b, i + 1, Len(b)))
              THEN Ok(b) ELSE Err("Parse", <<>>)

get_memory_capacity(m) ==
    LET r == ExpectOk(m, ReturnCap) IN
    Return(IF r.st = "ok" THEN ParseCapacity(r.b) ELSE r)

\* delete_file: assert_eq!(b, filename.as_bytes())
delete_file(m, filename) ==
    LET r == ExpectOk(m, DelSuccess) IN
    Return(IF r.st # "ok" THEN r
           ELSE IF r.b = filename THEN Ok(<<>>) ELSE Panic("assert_eq"))

\* set_time: assert_eq!(b, unix_time.to_le_bytes())
set_time(m, time) ==
    LET r == ExpectOk(m, TimeSetRtn) IN
    Return(IF r.st # "ok" THEN r
           ELSE IF r.b = time THEN Ok(<<>>) ELSE Panic("assert_eq"))

\* get_assisted_gnss_status: three assert_eq! on the body, then the date
get_assisted_gnss_status(m) ==
    LET r == ExpectOk(m, ReturnMga) IN
    Return(IF r.st # "ok" THEN r
           ELSE IF Len(r.b) = 6 /\ r.b[1] = 1 /\ r.b[2] = 0 THEN Ok(r.b)
           ELSE Panic("assert_eq"))

\* read_file up to the start of the YMODEM receive
read_file_reply(m, filename) ==
    LET r == ExpectOk(m, Returning) IN
    IF r.st # "ok" THEN Return(r)
    ELSE IF r.b = filename THEN Goto("rx_init") ELSE Return(Panic("assert_eq"))

\* write_file up to the start of the YMODEM send
\* (variant: the reply to RequestSend is not looked at)
write_file_reply_unchecked(m, filename) == Goto("tx_init")

write_file_reply(m, filename) ==
    LET r == ExpectOk(m, Accept) IN
    IF r.st # "ok" THEN Return(r)
    ELSE IF r.b = filename THEN Goto("tx_init") ELSE Return(Panic("assert_eq"))

\* read_file / write_file after recv_ctl: expect_ok(Idle)
\* (variant: the frame that follows the transfer is not looked at)
trailing_idle_unchecked(m) == Return(Ok(<<>>))

trailing_idle(m) ==
    LET r == ExpectOk(m, Idle) IN
    Return(IF r.st = "ok" THEN Ok(<<>>) ELSE r)

\* the code that follows request_ctl in the operation o
OnReply(o, rq, a, m) ==
    CASE o = "open" /\ rq.t = StatusReturn -> new_status(m)
      [] o = "open" /\ rq.t # StatusReturn -> new_stop(m)
      [] o = "memcap" -> get_memory_capacity(m)
      [] o = "delete" -> delete_file(m, a)
      [] o = "settime" -> set_time(m, a)
      [] o = "mga" -> get_assisted_gnss_status(m)
      [] o = "read" -> read_file_reply(m, a)
      [] OTHER -> write_file_reply(m, a)

(* ------------------------------ the device ------------------------------ *)
Frame(t, b) == Write(t, b).raw

ExpectedReply(t) ==
    CASE t = StatusReturn -> Idle
      [] t = RequestStop -> Idle
      [] t = RequestCap -> ReturnCap
      [] t = RequestDel -> DelSuccess
      [] t = TimeSet -> TimeSetRtn
      [] t = RequestMga -> ReturnMga
      [] t = RequestReturn -> Returning
      [] OTHER -> Accept

EchoRequests == {RequestDel, TimeSet, RequestReturn, RequestSend}

\* the reply of a device that serves the request
GoodReply(raw) ==
    LET t == raw[1]
        b == SubSeq(raw, 2, Len(raw) - 1)
    IN  Frame(ExpectedReply(t),
              CASE t \in EchoRequests -> b
                [] t = RequestCap -> CapBody
                [] t = RequestMga -> MgaBody
                [] OTHER -> <<>>)

\* frames that are no control message: empty, a wrong checksum, a type that is
\* not enumerated, longer than the control buffer
Malformed ==
    {<<>>,
     <<Idle, Idle + 1>>,
     <<1, 1>>,
     [i \in 1..(CTL_BUFFER_SIZE + 1) |-> 0]}

\* everything the device may answer to the request frame raw
DevReplies(raw) ==
    LET t == raw[1]
        b == SubSeq(raw, 2, Len(raw) - 1)
    IN  {GoodReply(raw)}
        \cup (IF t \in EchoRequests THEN {Frame(ExpectedReply(t), OtherBody)} ELSE {})
        \cup (IF t = RequestMga THEN {Frame(ReturnMga, OtherBody)} ELSE {})
        \cup (IF t = RequestCap THEN {Frame(ReturnCap, OtherBody)} ELSE {})
        \cup (IF t = StatusReturn THEN {Frame(Returning, <<>>)} ELSE {})
        \cup {Frame(ErrNoFile, b), Frame(ErrNoFile, BadUtf8)}
        \cup {Frame(ErrVali, <<>>), Frame(ErrStatus, <<0>>)}
        \cup {Frame(Idle, <<>>)}
        \cup Malformed

\* what the device reports on CTL when a transfer is over
Trailers == {Frame(Idle, <<>>), Frame(ErrStatus, <<0>>)}

\* an operation that returned is seen by its caller in the step it returns
Forget == fin' = NoFin /\ UNCHANGED <<faulted, ym, sh, cx, js, ua, tx, nw>>

Notify(f, rid) ==
    /\ Len(notifications) < MaxNotif
    /\ notifications' = Append(notifications, [data |-> f, rid |-> rid])

DeviceReply ==
    \E rq \in pending :
        \E f \in DevReplies(rq.raw) :
            /\ Notify(f, rq.rid)
            /\ pending' = pending \ {rq}
            /\ transfers' = IF /\ rq.raw[1] \in {RequestReturn, RequestSend}
                               /\ f = GoodReply(rq.raw)
                            THEN transfers \cup {rq.rid} ELSE transfers
            /\ Forget
            /\ UNCHANGED <<procVars, lockVars, opsStarted, nextRid, unsol, ctlInbox>>

DeviceTrailer ==
    \E rid \in transfers :
        \E f \in Trailers :
            /\ Notify(f, 0)
            /\ transfers' = transfers \ {rid}
            /\ Forget
            /\ UNCHANGED <<procVars, lockVars, opsStarted, nextRid, pending, unsol, ctlInbox>>

DeviceUnsolicited ==
    /\ unsol < MaxUnsolicited
    /\ Notify(Frame(Idle, <<>>), 0)
    /\ unsol' = unsol + 1
    /\ Forget
    /\ UNCHANGED <<procVars, lockVars, opsStarted, nextRid, pending, transfers, ctlInbox>>

(* ------------------------- the notification pump ------------------------ *)
\* XossTransport::new, the CTL branch of the pump: ctl_send.send(data).await
\* waits while the inbox holds 3 frames
Pump ==
    /\ notifications # <<>>
    /\ Len(ctlInbox) < InboxDepth
    /\ ctlInbox' = Append(ctlInbox, Head(notifications))
    /\ notifications' = Tail(notifications)
    /\ Forget
    /\ UNCHANGED <<procVars, lockVars, opsStarted, nextRid, devVars>>

(* --------------------------- locks and returns -------------------------- *)
\* tokio::sync::Mutex::lock().await completes when nobody holds the mutex
\* (variant: a mutex that lets everybody in)
MutexUnguarded(holder) == TRUE

MutexFree(holder) == holder = None

\* a guard that is never dropped
ReleasedNever(holder, p) == holder

Released(holder, p) == IF holder = p THEN None ELSE holder

\* the faults after which the state of the device is not known: a framing
\* error of a control frame, an echo that differs from the request
FatalFault(o, r) ==
    \/ r.st = "err" /\ r.why \in {"BadChecksum", "UnknownType"}
    \/ r.st = "panic" /\ r.why = "assert_eq" /\ o \in EchoOps

\* The operation of p returns r (or unwinds) after the events evs, having been
\* handed the reply to request g: its guards and its UartStream are dropped
\* and its locals are gone; a panic ends the calling task.
End(p, r, evs, g) ==
    /\ fin' = [p |-> p, op |-> op[p], arg |-> arg[p], res |-> r,
               trace |-> trace[p] \o evs, myRid |-> myRid[p], gotRid |-> g]
    /\ faulted' = (faulted \/ FatalFault(op[p], r))
    /\ UNCHANGED <<ym, sh, cx, js, ua, tx, nw>>
    /\ pc' = [pc EXCEPT ![p] =
                IF r.st = "panic" THEN "crashed"
                ELSE IF p # Opener THEN "idle"
                ELSE IF r.st = "ok" THEN "opened" ELSE "failed"]
    /\ op' = [op EXCEPT ![p] = "none"]
    /\ arg' = [arg EXCEPT ![p] = <<>>]
    /\ req' = [req EXCEPT ![p] = NoMsg]
    /\ left' = [left EXCEPT ![p] = 0]
    /\ seq' = [seq EXCEPT ![p] = 0]
    /\ trace' = [trace EXCEPT ![p] = <<>>]
    /\ myRid' = [myRid EXCEPT ![p] = None]
    /\ gotRid' = [gotRid EXCEPT ![p] = None]
    /\ sessionLock' = Released(sessionLock, p)
    /\ innerLock' = Released(innerLock, p)
    /\ streams' = streams \ {p}

\* p goes on inside its operation after the events evs; inner is the holder
\* of the inner mutex then
Continue(p, next, evs, inner) ==
    /\ pc' = [pc EXCEPT ![p] = next]
    /\ trace' = [trace EXCEPT ![p] = trace[p] \o evs]
    /\ innerLock' = inner
    /\ Forget
    /\ UNCHANGED <<sessionLock, streams>>

(* ------------------------------ operations ------------------------------ *)
\* a caller calls one of the public operations; callers are interchangeable,
\* so the first operation is caller 1's
Start(p) ==
    /\ p \in Callers
    /\ pc[Opener] = "opened"
    /\ pc[p] = "idle"
    /\ opsStarted < MaxOps
    /\ opsStarted = 0 => p = 1
    /\ opsStarted' = opsStarted + 1
    /\ pc' = [pc EXCEPT ![p] = "acquire"]
    /\ \E o \in PeekOps \cup {"none"} : op' = [op EXCEPT ![p] = o]
    /\ Forget
    /\ UNCHANGED <<arg, req, left, seq, trace, myRid, gotRid, lockVars, nextRid,
                   devVars, notifications, ctlInbox>>

\* XossDevice::battery_level / device_info: the lock is taken, the value is
\* read from the transport and the guard is dropped, with no await between
Peek(p) ==
    /\ pc[p] = "acquire"
    /\ op[p] \in PeekOps
    /\ MutexFree(sessionLock)
    /\ End(p, Ok(<<>>), <<>>, None)
    /\ UNCHANGED <<opsStarted, nextRid, devVars, notifications, ctlInbox>>

\* self.transport.lock().await, the first statement of every operation; which
\* operation it is and its arguments matter from here on
Acquire(p) ==
    /\ pc[p] = "acquire"
    /\ op[p] \notin PeekOps
    /\ MutexFree(sessionLock)
    /\ sessionLock' = p
    /\ \E o \in Ops : \E a \in ArgsOf(o) : \E n \in 0..MaxPackets :
        /\ o # "write" => n = 0
        /\ op' = [op EXCEPT ![p] = o]
        /\ arg' = [arg EXCEPT ![p] = a]
        /\ req' = [req EXCEPT ![p] = RequestOf(o, a)]
        /\ left' = [left EXCEPT ![p] = n]
        /\ pc' = [pc EXCEPT ![p] = IF o \in TransferOps THEN "open_uart" ELSE "ctl_send"]
    /\ Forget
    /\ UNCHANGED <<seq, trace, myRid, gotRid, innerLock, streams, opsStarted, nextRid,
                   devVars, notifications, ctlInbox>>

\* XossTransport::open_uart_stream: the inner mutex is taken and released
OpenUart(p) ==
    /\ pc[p] = "open_uart"
    /\ MutexFree(innerLock)
    /\ streams' = streams \cup {p}
    /\ pc' = [pc EXCEPT ![p] = "ctl_send"]
    /\ trace' = [trace EXCEPT ![p] = trace[p] \o <<Ev("open", 0, <<>>)>>]
    /\ Forget
    /\ UNCHANGED <<op, arg, req, left, seq, myRid, gotRid, sessionLock, innerLock,
                   opsStarted, nextRid, devVars, notifications, ctlInbox>>

\* XossTransport::request_ctl up to the write: inner.lock(), send_ctl
\* (RawControlMessage::write, then the write-with-response, which may fail)
CtlSend(p) ==
    /\ pc[p] = "ctl_send"
    /\ MutexFree(innerLock)
    /\ LET w == Write(req[p].t, req[p].b) IN
       IF w.st = "panic"
       THEN /\ End(p, Panic("assert"), <<>>, None)
            /\ UNCHANGED <<nextRid, pending>>
       ELSE \E written \in BOOLEAN :
            IF written
            THEN /\ nextRid' = nextRid + 1
                 /\ pending' = pending \cup {[rid |-> nextRid + 1, raw |-> w.raw]}
                 /\ myRid' = [myRid EXCEPT ![p] = nextRid + 1]
                 /\ gotRid' = [gotRid EXCEPT ![p] = None]
                 /\ Continue(p, "ctl_wait", <<Ev("ctlw", req[p].t, req[p].b)>>, p)
                 /\ UNCHANGED <<op, arg, req, left, seq>>
            ELSE /\ End(p, Err("Io", <<>>), <<>>, None)
                 /\ UNCHANGED <<nextRid, pending>>
    /\ UNCHANGED <<opsStarted, transfers, unsol, notifications, ctlInbox>>

\* the second half of request_ctl: recv_ctl(buffer, NORMAL_RESPONSE_TIMEOUT)
\* takes the next frame of the inbox; then the operation reads the reply
CtlRecv(p) ==
    /\ pc[p] = "ctl_wait"
    /\ ctlInbox # <<>>
    /\ ctlInbox' = Tail(ctlInbox)
    /\ LET f == Head(ctlInbox)
           m == RecvCtl(f.data)
       IN  IF m.st # "ok"
           THEN End(p, Propagate(m), <<>>, None)
           ELSE LET d == OnReply(op[p], req[p], arg[p], m)
                    e == <<Ev("ctlr", m.t, m.b)>>
                IN  IF d.next = "return"
                    THEN End(p, d.res, e, f.rid)
                    ELSE /\ gotRid' = [gotRid EXCEPT ![p] = f.rid]
                         /\ IF d.next = "stop"
                            THEN /\ Continue(p, "ctl_send", e, None)
                                 /\ req' = [req EXCEPT ![p] = Msg(RequestStop, <<>>)]
                            ELSE Continue(p, d.next, e, None) /\ req' = req
                         /\ UNCHANGED <<op, arg, left, seq, myRid>>
    /\ UNCHANGED <<opsStarted, nextRid, devVars, notifications>>

\* tokio::select! in recv_ctl_raw: the sleep wins when no frame is there
CtlTimeout(p) ==
    /\ pc[p] = "ctl_wait"
    /\ ctlInbox = <<>>
    /\ End(p, Err("Timeout", <<>>), <<>>, None)
    /\ UNCHANGED <<opsStarted, nextRid, devVars, notifications, ctlInbox>>

\* XossTransport::recv_ctl (FILE_RESPONSE_TIMEOUT) and expect_ok(Idle)
IdleRecv(p) ==
    /\ pc[p] = "idle_wait"
    /\ ctlInbox # <<>>
    /\ ctlInbox' = Tail(ctlInbox)
    /\ LET m == RecvCtl(Head(ctlInbox).data) IN
       IF m.st # "ok"
       THEN End(p, Propagate(m), <<>>, gotRid[p])
       ELSE End(p, trailing_idle(m).res, <<Ev("ctlr", m.t, m.b)>>, gotRid[p])
    /\ UNCHANGED <<opsStarted, nextRid, devVars, notifications>>

IdleTimeout(p) ==
    /\ pc[p] = "idle_wait"
    /\ ctlInbox = <<>>
    /\ End(p, Err("Timeout", <<>>), <<>>, gotRid[p])
    /\ UNCHANGED <<opsStarted, nextRid, devVars, notifications, ctlInbox>>

(* ---------------------- the transfer inside an operation ---------------- *)
\* Each action is one timeout(UART_TIMEOUT, fut) of receive_file / send_file.
\* What the UART delivers is an input: the expected items, or a failure at one
\* of the reads of the step (the events before it have happened).
TxW(b) == Ev("txw", b, <<>>)
RxR(b) == Ev("rxr", b, <<>>)
TxPkt(s) == Ev("txpkt", s, <<>>)
RxPkt(s) == Ev("rxpkt", s, <<>>)

restUnchanged == <<opsStarted, nextRid, devVars, notifications, ctlInbox>>

\* receive_file, first future: 'C', the header packet, ACK, 'C'
RxInit(p) ==
    /\ pc[p] = "rx_init"
    /\ \/ \E n \in 0..MaxPackets :
            /\ Continue(p, IF n > 0 THEN "rx_data" ELSE "rx_eot",
                        <<TxW(CRC_C), RxPkt(0), TxW(ACK), TxW(CRC_C)>>, innerLock)
            /\ left' = [left EXCEPT ![p] = n]
            /\ UNCHANGED <<op, arg, req, seq, myRid, gotRid>>
       \/ \E why \in ReadFailures :
            End(p, Err(why, <<>>), <<TxW(CRC_C)>>, gotRid[p])
    /\ UNCHANGED restUnchanged

\* receive_file, one turn of the loop: the data packet, ACK
RxData(p) ==
    /\ pc[p] = "rx_data"
    /\ LET s == (seq[p] + 1) % 256 IN
       \/ /\ Continue(p, IF left[p] - 1 > 0 THEN "rx_data" ELSE "rx_eot",
                      <<RxPkt(s), TxW(ACK)>>, innerLock)
          /\ seq' = [seq EXCEPT ![p] = s]
          /\ left' = [left EXCEPT ![p] = left[p] - 1]
          /\ UNCHANGED <<op, arg, req, myRid, gotRid>>
       \/ \E why \in ReadFailures :
          End(p, Err(why, <<>>), <<>>, gotRid[p])
    /\ UNCHANGED restUnchanged

\* receive_file, last future: EOT, NAK, EOT, ACK, flush; then read_file goes on
\* to recv_ctl, which takes the inner mutex
RxEot(p) ==
    /\ pc[p] = "rx_eot"
    /\ \/ /\ Continue(p, "idle_wait", <<RxR(EOT), TxW(NAK), RxR(EOT), TxW(ACK)>>, p)
          /\ UNCHANGED <<op, arg, req, left, seq, myRid, gotRid>>
       \/ \E why \in ByteFailures :
          \E evs \in {<<>>, <<RxR(EOT), TxW(NAK)>>} :
             End(p, Err(why, <<>>), evs, gotRid[p])
    /\ UNCHANGED restUnchanged

\* send_file, first future: 'C', the header packet, ACK, 'C'
TxInit(p) ==
    /\ pc[p] = "tx_init"
    /\ \/ /\ Continue(p, IF left[p] > 0 THEN "tx_data" ELSE "tx_eot",
                      <<RxR(CRC_C), TxPkt(0), RxR(ACK), RxR(CRC_C)>>, innerLock)
          /\ UNCHANGED <<op, arg, req, left, seq, myRid, gotRid>>
       \/ \E why \in ByteFailures :
          \E evs \in {<<>>, <<RxR(CRC_C), TxPkt(0)>>, <<RxR(CRC_C), TxPkt(0), RxR(ACK)>>} :
             End(p, Err(why, <<>>), evs, gotRid[p])
    /\ UNCHANGED restUnchanged

\* send_file, one turn of the loop: the data packet, ACK
TxData(p) ==
    /\ pc[p] = "tx_data"
    /\ LET s == (seq[p] + 1) % 256 IN
       \/ /\ Continue(p, IF left[p] - 1 > 0 THEN "tx_data" ELSE "tx_eot",
                      <<TxPkt(s), RxR(ACK)>>, innerLock)
          /\ seq' = [seq EXCEPT ![p] = s]
          /\ left' = [left EXCEPT ![p] = left[p] - 1]
          /\ UNCHANGED <<op, arg, req, myRid, gotRid>>
       \/ \E why \in ByteFailures :
          End(p, Err(why, <<>>), <<TxPkt(s)>>, gotRid[p])
    /\ UNCHANGED restUnchanged

\* send_file, last future: EOT, NAK, EOT, ACK; then write_file goes on to
\* recv_ctl, which takes the inner mutex
TxEot(p) ==
    /\ pc[p] = "tx_eot"
    /\ \/ /\ Continue(p, "idle_wait", <<TxW(EOT), RxR(NAK), TxW(EOT), RxR(ACK)>>, p)
          /\ UNCHANGED <<op, arg, req, left, seq, myRid, gotRid>>
       \/ \E why \in ByteFailures :
          \E evs \in {<<TxW(EOT)>>, <<TxW(EOT), RxR(NAK), TxW(EOT)>>} :
             End(p, Err(why, <<>>), evs, gotRid[p])
    /\ UNCHANGED restUnchanged

(* --------------------------- the specification -------------------------- *)
Next ==
    \/ \E p \in Callers : Start(p)
    \/ \E p \in Callers : Acquire(p)
    \/ \E p \in Callers : Peek(p)
    \/ \E p \in Callers : OpenUart(p)
    \/ \E p \in Callers : CtlSend(p)
    \/ \E p \in Callers : CtlRecv(p)
    \/ \E p \in Callers : CtlTimeout(p)
    \/ \E p \in Callers : RxInit(p)
    \/ \E p \in Callers : RxData(p)
    \/ \E p \in Callers : RxEot(p)
    \/ \E p \in Callers : TxInit(p)
    \/ \E p \in Callers : TxData(p)
    \/ \E p \in Callers : TxEot(p)
    \/ \E p \in Callers : IdleRecv(p)
    \/ \E p \in Callers : IdleTimeout(p)
    \/ DeviceReply
    \/ DeviceTrailer
    \/ DeviceUnsolicited
    \/ Pump

Spec == Init /\ [][Next]_vars

\* XossDevice::new alone against the device
NextOpen ==
    \/ CtlSend(Opener)
    \/ CtlRecv(Opener)
    \/ CtlTimeout(Opener)
    \/ DeviceReply
    \/ DeviceUnsolicited
    \/ Pump

SpecOpen == InitOpen /\ [][NextOpen]_vars

(* ------------------- YMODEM: receive_file and send_file ----------------- *)
\* One call of receive_file or send_file on a byte stream whose other end is
\* the device. A packet is named by its start byte, its sequence number and
\* the results of its checks; time is counted in seconds.
STX == 2
CAN == 24
SMALL_DATA_SIZE == 128
LARGE_DATA_SIZE == 1024
UART_TIMEOUT == 5

Min(a, b) == IF a < b THEN a ELSE b

\* u8::saturating_add(1)
SaturatingInc(s) == IF s = 255 THEN 255 ELSE s + 1

\* u8::wrapping_add(1)
WrappingInc(s) == (s + 1) % 256

\* YModemPacket::data_len; 0 stands for Err(InvalidStart)
data_len(start_byte) ==
    CASE start_byte = SOH -> SMALL_DATA_SIZE
      [] start_byte = STX -> LARGE_DATA_SIZE
      [] OTHER -> 0

\* the smallest size whose transfer in 128-byte (1024-byte) packets takes
\* more than 255 of them
WrapSmall == 255 * SMALL_DATA_SIZE + 1
WrapLarge == 255 * LARGE_DATA_SIZE + 1

\* sizes the device declares in the header of a receive
RecvSizes == {0, 1, SMALL_DATA_SIZE, SMALL_DATA_SIZE + 1, LARGE_DATA_SIZE + 1, WrapSmall}
\* sizes of the files handed to send_file
SendSizes == {0, 1, LARGE_DATA_SIZE - 1, LARGE_DATA_SIZE, 3000, WrapLarge}

\* how the device frames the data of a receive: always SOH, always STX, or
\* STX while 1024 bytes or more remain
Framings == {"small", "large", "mixed"}

StartOf(framing, remaining) ==
    CASE framing = "small" -> SOH
      [] framing = "large" -> STX
      [] OTHER -> IF remaining >= LARGE_DATA_SIZE THEN STX ELSE SOH

\* sequence numbers the device may put on a packet the host expects as s
SeqChoices(s) == {s, (s + 255) % 256, WrappingInc(s)}

\* YModemPacket::parse after the length checks: the complement of the
\* sequence number first, the CRC second
ParsePacket(s, inv_ok, crc_ok) ==
    IF ~inv_ok THEN "InvalidSeq"
    ELSE IF ~crc_ok THEN "InvalidCrc"
    ELSE "ok"

\* a receive that yields the whole data field of every packet
recv_data_len_whole(len_left, packet_len) == packet_len

\* receive_file: data_len = min(len_left, packet.data.len())
recv_data_len(len_left, packet_len) == Min(len_left, packet_len)

\* a receive that takes a repeated packet for the expected one
seq_matches_lenient(expected, s) == s \in {expected, (expected + 255) % 256}

\* receive_file: `if seq != packet.seq { Err(..) }`
seq_matches(expected, s) == expected = s

\* the packet a read has just returned, with the sequence number the host
\* expected
Packet(at, expected, s, inv_ok, crc_ok) ==
    [at |-> at, expected |-> expected, seq |-> s, inv_ok |-> inv_ok, crc_ok |-> crc_ok]

NoPacket == [at |-> "none"]

YmActive == ym.pc \in {"header", "data", "eot"}

YmFail(why) ==
    ym' = [ym EXCEPT !.pc = "failed", !.why = why]

\* the step fails on the packet it has read
YmFailOn(why, last) ==
    ym' = [ym EXCEPT !.pc = "failed", !.why = why, !.last = last]

YmNew(dir, log) ==
    [pc |-> "header", dir |-> dir, got |-> 0, elapsed |-> 0, spent |-> 0,
     stalled |-> FALSE, why |-> "", size |-> 0, framing |-> "small",
     len_left |-> 0, seq |-> 0, npk |-> 0, log |-> log, out |-> <<>>, name |-> <<>>,
     tokens |-> <<>>, last |-> NoPacket]

\* format!("{}", n) of an unsigned number
RECURSIVE Decimal(_)
Decimal(n) == IF n < 10 THEN <<48 + n>> ELSE Append(Decimal(n \div 10), 48 + (n % 10))

\* u64::from_str_radix(s, 10) of a string of digits
DecimalValue(s) ==
    LET F[i \in 0..Len(s)] == IF i = 0 THEN 0 ELSE F[i - 1] * 10 + (s[i] - 48)
    IN F[Len(s)]

\* YModemHeader::parse: the trailing NULs are stripped, the rest is split on
\* NUL and SPACE, the empty pieces are left out
HeaderTokens(data) ==
    LET used == {i \in 1..Len(data) : data[i] # 0}
        n == IF used = {} THEN 0 ELSE CHOOSE i \in used : \A j \in used : j <= i
        F[i \in 0..n] ==
            IF i = 0 THEN [toks |-> <<>>, cur |-> <<>>]
            ELSE LET p == F[i - 1] IN
                 IF data[i] \in {0, 32}
                 THEN [toks |-> IF p.cur = <<>> THEN p.toks ELSE Append(p.toks, p.cur),
                       cur |-> <<>>]
                 ELSE [toks |-> p.toks, cur |-> Append(p.cur, data[i])]
    IN IF F[n].cur = <<>> THEN F[n].toks ELSE Append(F[n].toks, F[n].cur)

\* YModemHeader::parse: the first token is the name, every later one is parsed
\* as the size
header_parse(data) ==
    LET toks == HeaderTokens(data) IN
    IF \E i \in 1..Len(toks) : ~Utf8Valid(toks[i]) THEN [st |-> "Invalid UTF-8"]
    ELSE IF \E i \in 2..Len(toks) : ~IsDigits(toks[i]) THEN [st |-> "Invalid size"]
    ELSE [st |-> "ok", name |-> IF toks = <<>> THEN <<>> ELSE toks[1],
          size |-> IF Len(toks) < 2 THEN 0 ELSE DecimalValue(toks[Len(toks)])]

\* the header strings a device sends: name and size, a third token after the
\* size, a size that is no number
RecvHeaders ==
    {<<102, 32>> \o Decimal(sz) : sz \in RecvSizes}
    \cup {<<102, 32>> \o Decimal(SMALL_DATA_SIZE) \o <<32>> \o Decimal(1),
          <<102, 32, 120>>}

\* receive_file is called: "C" is written, the header is awaited
ReceiveFile ==
    /\ ym.pc = "off"
    /\ ym' = YmNew("recv", <<TxW(CRC_C)>>)
    /\ UNCHANGED <<sessVars, sh, cx, js, ua, tx, nw>>

\* YModemPacket::read, first read_exact: the start byte of a packet arrives
RxStart ==
    /\ ym.pc \in {"header", "data"} /\ ym.dir = "recv"
    /\ ym.got = 0 /\ ~ym.stalled
    /\ \E b \in (IF ym.pc = "header" THEN {SOH, STX}
                 ELSE {StartOf(ym.framing, ym.len_left)}) \cup {CAN} :
          IF data_len(b) = 0
          THEN YmFail("InvalidStart")
          ELSE ym' = [ym EXCEPT !.got = b]
    /\ UNCHANGED <<sessVars, sh, cx, js, ua, tx, nw>>

\* the rest of the header packet arrives: packet parse, header parse, sequence
\* check, ACK and "C"
RxHeader ==
    /\ ym.pc = "header" /\ ym.dir = "recv"
    /\ ym.got # 0 /\ ~ym.stalled
    /\ \E s \in SeqChoices(0), inv_ok \in BOOLEAN, crc_ok \in BOOLEAN,
          str \in RecvHeaders, framing \in Framings :
          /\ inv_ok \/ crc_ok
          /\ (s # 0 \/ ~inv_ok \/ ~crc_ok) => (str = <<102, 32>> \o Decimal(0) /\ framing = "small")
          /\ LET r == ParsePacket(s, inv_ok, crc_ok)
                 last == Packet("header", ym.seq, s, inv_ok, crc_ok)
                 data == [i \in 1..data_len(ym.got) |-> IF i <= Len(str) THEN str[i] ELSE 0]
                 hdr == header_parse(data)
             IN
             IF r # "ok" THEN YmFailOn(r, last)
             ELSE IF hdr.st # "ok"
                  THEN /\ framing = "small"
                       /\ ym' = [ym EXCEPT !.pc = "failed", !.why = hdr.st, !.last = last,
                                           !.tokens = HeaderTokens(data)]
             ELSE IF ~seq_matches(ym.seq, s) THEN YmFailOn("Invalid sequence number", last)
             ELSE LET size == hdr.size
                      log == ym.log \o <<Ev("rxpkt", s, <<data_len(ym.got)>>), TxW(ACK), TxW(CRC_C)>>
                      h == [ym EXCEPT !.size = size, !.framing = framing,
                                      !.len_left = size, !.log = log, !.last = last,
                                      !.tokens = HeaderTokens(data)]
                  IN ym' = IF size > 0
                           THEN [h EXCEPT !.pc = "data", !.got = 0, !.elapsed = 0,
                                          !.seq = WrappingInc(ym.seq)]
                           ELSE [h EXCEPT !.pc = "eot", !.got = 0, !.elapsed = 0]
    /\ UNCHANGED <<sessVars, sh, cx, js, ua, tx, nw>>

\* the rest of a data packet arrives: parse, sequence check, ACK, the first
\* min(len_left, data length) bytes are yielded
RxPacket ==
    /\ ym.pc = "data" /\ ym.dir = "recv"
    /\ ym.got # 0 /\ ~ym.stalled
    /\ \E s \in SeqChoices(ym.seq), inv_ok \in BOOLEAN, crc_ok \in BOOLEAN :
          /\ inv_ok \/ crc_ok
          /\ LET r == ParsePacket(s, inv_ok, crc_ok)
                 last == Packet("data", ym.seq, s, inv_ok, crc_ok)
             IN
             IF r # "ok" THEN YmFailOn(r, last)
             ELSE IF ~seq_matches(ym.seq, s) THEN YmFailOn("Invalid sequence number", last)
             ELSE LET n == recv_data_len(ym.len_left, data_len(ym.got))
                      d == [ym EXCEPT
                              !.last = last,
                              !.log = ym.log \o <<Ev("rxpkt", s, <<data_len(ym.got)>>), TxW(ACK)>>,
                              !.out = Append(ym.out, [pkt |-> ym.npk + 1, from |-> 0, len |-> n,
                                                      of |-> data_len(ym.got)]),
                              !.npk = ym.npk + 1,
                              !.len_left = ym.len_left - n]
                  IN ym' = IF d.len_left > 0
                           THEN [d EXCEPT !.got = 0, !.elapsed = 0, !.seq = WrappingInc(ym.seq)]
                           ELSE [d EXCEPT !.pc = "eot", !.got = 0, !.elapsed = 0]
    /\ UNCHANGED <<sessVars, sh, cx, js, ua, tx, nw>>

\* a receive that acknowledges the first EOT at once
eot_reply_ack(got) == ACK

\* receive_file: NAK answers the first EOT, ACK the second
eot_reply(got) == IF got = 0 THEN NAK ELSE ACK

\* io.flush()
Flush == Ev("flush", 0, <<>>)

\* the EOT exchange of receive_file: EOT, NAK, EOT, ACK, flush
RxEotByte ==
    /\ ym.pc = "eot" /\ ym.dir = "recv" /\ ~ym.stalled
    /\ \E b \in {EOT, CAN} :
          IF b # EOT THEN YmFail("Invalid EOT")
          ELSE IF ym.got = 0
          THEN ym' = [ym EXCEPT !.got = 1, !.log = ym.log \o <<RxR(b), TxW(eot_reply(0))>>]
          ELSE ym' = [ym EXCEPT !.pc = "done",
                                !.log = ym.log \o <<RxR(b), TxW(eot_reply(1)), Flush>>]
    /\ UNCHANGED <<sessVars, sh, cx, js, ua, tx, nw>>

\* a file name of n bytes
NameOf(n) == [i \in 1..n |-> 102]

\* what send_file is called with: a short name with every size, and names
\* that bring the header string to 128 and to 129 bytes
SendInputs ==
    {[name |-> NameOf(1), size |-> s] : s \in SendSizes}
    \cup {[name |-> NameOf(SMALL_DATA_SIZE - d), size |-> 0] : d \in {1, 2}}
    \cup {[name |-> NameOf(SMALL_DATA_SIZE - d), size |-> 3000] : d \in {4, 5}}

\* send_file: header_str = format!("{} {}", filename, file_size)
header_str(name, size) == name \o <<32>> \o Decimal(size)

\* a send that keeps room for a terminating NUL
header_fits_nul(h) == Len(h) < SMALL_DATA_SIZE

\* send_file: `if header_str.len() > SMALL_DATA_SIZE { bail!(..) }`
header_fits(h) == Len(h) <= SMALL_DATA_SIZE

\* header_data: the string copied into 128 zero bytes
header_data(h) == [i \in 1..SMALL_DATA_SIZE |-> IF i <= Len(h) THEN h[i] ELSE 0]

\* YModemPacket::start_byte
start_byte(len) == IF len = SMALL_DATA_SIZE THEN SOH ELSE STX

\* send_file is called
SendFile ==
    /\ ym.pc = "off"
    /\ \E in \in SendInputs :
          LET s == [YmNew("send", <<>>) EXCEPT !.size = in.size, !.len_left = in.size,
                                               !.name = in.name]
          IN ym' = IF header_fits(header_str(in.name, in.size)) THEN s
                   ELSE [s EXCEPT !.pc = "failed", !.why = "Filename too long"]
    /\ UNCHANGED <<sessVars, sh, cx, js, ua, tx, nw>>

\* a send that uses the small packets up to and including 1024 bytes
packet_data_size_le(file_size) ==
    IF file_size <= LARGE_DATA_SIZE THEN SMALL_DATA_SIZE ELSE LARGE_DATA_SIZE

packet_data_size(file_size) ==
    IF file_size < LARGE_DATA_SIZE THEN SMALL_DATA_SIZE ELSE LARGE_DATA_SIZE

\* the data packet send_file writes as a step begins: of its data field the
\* first data_len bytes are the file's, the rest is zero
TxPacket(s, sq) ==
    LET size == packet_data_size(s.size) IN
    [s EXCEPT !.pc = "data", !.got = 0, !.elapsed = 0, !.seq = sq,
              !.npk = s.npk + 1,
              !.log = s.log \o <<Ev("txpkt", sq, <<start_byte(size), Min(s.len_left, size), size>>)>>]

\* a sender that writes both EOT bytes without waiting for the NAK
TxBothEot(s) ==
    [s EXCEPT !.pc = "eot", !.got = 0, !.elapsed = 0,
              !.log = s.log \o <<TxW(EOT), TxW(EOT)>>]

TxFirstEot(s) ==
    [s EXCEPT !.pc = "eot", !.got = 0, !.elapsed = 0, !.log = s.log \o <<TxW(EOT)>>]

\* the header exchange of send_file: "C", the header packet, ACK, "C"
TxHeaderByte ==
    /\ ym.pc = "header" /\ ym.dir = "send" /\ ~ym.stalled
    /\ \E b \in {CRC_C, ACK, CAN} :
          LET r == [ym EXCEPT !.log = ym.log \o <<RxR(b)>>] IN
          CASE ym.got = 0 ->
                 IF b # CRC_C THEN YmFail("Expected C")
                 ELSE ym' = [r EXCEPT !.got = 1,
                                !.log = r.log \o <<Ev("txpkt", ym.seq,
                                                    <<start_byte(SMALL_DATA_SIZE)>>
                                                    \o header_data(header_str(ym.name, ym.size)))>>]
            [] ym.got = 1 ->
                 IF b # ACK THEN YmFail("Expected ACK")
                 ELSE ym' = [r EXCEPT !.got = 2]
            [] OTHER ->
                 IF b # CRC_C THEN YmFail("Expected C")
                 ELSE ym' = IF ym.len_left > 0
                            THEN TxPacket(r, WrappingInc(ym.seq))
                            ELSE TxFirstEot(r)
    /\ UNCHANGED <<sessVars, sh, cx, js, ua, tx, nw>>

\* the byte that answers a data packet
TxAck ==
    /\ ym.pc = "data" /\ ym.dir = "send" /\ ~ym.stalled
    /\ \E b \in {ACK, NAK} :
          IF b # ACK THEN YmFail("Expected ACK")
          ELSE LET n == Min(ym.len_left, packet_data_size(ym.size))
                   r == [ym EXCEPT !.log = ym.log \o <<RxR(b)>>, !.len_left = ym.len_left - n]
               IN ym' = IF r.len_left > 0
                        THEN TxPacket(r, WrappingInc(ym.seq))
                        ELSE TxFirstEot(r)
    /\ UNCHANGED <<sessVars, sh, cx, js, ua, tx, nw>>

\* the EOT exchange of send_file: EOT, NAK, EOT, ACK
TxEotByte ==
    /\ ym.pc = "eot" /\ ym.dir = "send" /\ ~ym.stalled
    /\ \E b \in {ACK, NAK} :
          LET r == [ym EXCEPT !.log = ym.log \o <<RxR(b)>>] IN
          IF ym.got = 0
          THEN IF b # NAK THEN YmFail("Expected NAK")
               ELSE ym' = [r EXCEPT !.got = 1, !.log = r.log \o <<TxW(EOT)>>]
          ELSE IF b # ACK THEN YmFail("Expected ACK")
               ELSE ym' = [r EXCEPT !.pc = "done"]
    /\ UNCHANGED <<sessVars, sh, cx, js, ua, tx, nw>>

\* one timer for the whole transfer
YmTickWhole ==
    /\ YmActive
    /\ IF ym.spent + 1 < UART_TIMEOUT
       THEN ym' = [ym EXCEPT !.elapsed = ym.elapsed + 1,
                             !.spent = Min(ym.spent + 1, UART_TIMEOUT + 1)]
       ELSE YmFail("Elapsed")
    /\ UNCHANGED <<sessVars, sh, cx, js, ua, tx, nw>>

\* a second passes while a step waits; tokio::time::timeout ends the step
\* when UART_TIMEOUT seconds have passed since it began
YmTick ==
    /\ YmActive
    /\ IF ym.elapsed + 1 < UART_TIMEOUT
       THEN ym' = [ym EXCEPT !.elapsed = ym.elapsed + 1,
                             !.spent = Min(ym.spent + 1, UART_TIMEOUT + 1)]
       ELSE YmFail("Elapsed")
    /\ UNCHANGED <<sessVars, sh, cx, js, ua, tx, nw>>

\* the device stops sending
YmStall ==
    /\ YmActive /\ ~ym.stalled
    /\ ym' = [ym EXCEPT !.stalled = TRUE]
    /\ UNCHANGED <<sessVars, sh, cx, js, ua, tx, nw>>

InitYm ==
    /\ pc = [p \in Procs |-> IF p = Opener THEN "opened" ELSE "idle"]
    /\ op = [p \in Procs |-> "none"]
    /\ req = [p \in Procs |-> NoMsg]
    /\ Fresh
    /\ cx = Off
    /\ js = Off
    /\ ua = Off
    /\ tx = Off
    /\ nw = Off

NextYm ==
    \/ ReceiveFile
    \/ RxStart
    \/ RxHeader
    \/ RxPacket
    \/ RxEotByte
    \/ SendFile
    \/ TxHeaderByte
    \/ TxAck
    \/ TxEotByte
    \/ YmTick
    \/ YmStall

\* the runtime's clock advances
SpecYm == InitYm /\ [][NextYm]_vars /\ WF_vars(YmTick)

(* ---------------- the notification pump of XossTransport::new ----------- *)
\* notifications the peripheral emits while the pump is looked at
MaxEvents == 5

\* the characteristics a notification can carry; "unknown" is any other UUID
RX_CHARACTERISTIC_UUID == "rx"
CTL_CHARACTERISTIC_UUID == "ctl"
BATTERY_LEVEL_CHARACTERISTIC_UUID == "battery"
InfoUuids == {"firmware_revision"}
Uuids == {RX_CHARACTERISTIC_UUID, CTL_CHARACTERISTIC_UUID,
          BATTERY_LEVEL_CHARACTERISTIC_UUID, "unknown"} \cup InfoUuids

\* a pump that takes every unrecognised notification for a control frame
RouteLoose(uuid) ==
    CASE uuid = RX_CHARACTERISTIC_UUID -> "rx"
      [] uuid = BATTERY_LEVEL_CHARACTERISTIC_UUID -> "battery"
      [] uuid \in InfoUuids -> "ignore"
      [] OTHER -> "ctl"

\* where the pump's if-chain sends a notification
Route(uuid) ==
    CASE uuid = RX_CHARACTERISTIC_UUID -> "rx"
      [] uuid = CTL_CHARACTERISTIC_UUID -> "ctl"
      [] uuid = BATTERY_LEVEL_CHARACTERISTIC_UUID -> "battery"
      [] uuid \in InfoUuids -> "ignore"
      [] OTHER -> "warn"

\* the transport was built: the pump runs, both channels are empty
ShNew ==
    [pump |-> "run", held |-> <<>>, notified |-> <<>>, pumped |-> 0, open |-> TRUE,
     ctl |-> <<>>, rx |-> <<>>, battery |-> 0, ctlGot |-> <<>>, rxGot |-> <<>>,
     alive |-> TRUE]

\* the peripheral notifies; the n-th notification carries the value <<n>>,
\* a battery notification possibly one byte more
Notified ==
    /\ sh.pump # "off" /\ sh.open
    /\ Len(sh.notified) < MaxEvents
    /\ \E u \in Uuids, extra \in BOOLEAN :
          /\ extra => u = BATTERY_LEVEL_CHARACTERISTIC_UUID
          /\ LET n == Len(sh.notified) + 1
                 v == IF extra THEN <<n, n>> ELSE <<n>>
             IN sh' = [sh EXCEPT !.notified = Append(sh.notified, [uuid |-> u, value |-> v])]
    /\ UNCHANGED <<sessVars, ym, cx, js, ua, tx, nw>>

\* the notification stream ends (the peripheral is gone)
StreamEnds ==
    /\ sh.pump # "off" /\ sh.open
    /\ sh' = [sh EXCEPT !.open = FALSE]
    /\ UNCHANGED <<sessVars, ym, cx, js, ua, tx, nw>>

\* Sender::send(data).await on a channel of depth InboxDepth: the frame is
\* queued when there is room, refused when the receiver is gone, and the
\* sender waits otherwise
SendTo(s, chan, data) ==
    IF ~s.alive THEN s
    ELSE IF Len(s[chan]) < InboxDepth
    THEN [s EXCEPT ![chan] = Append(s[chan], data)]
    ELSE [s EXCEPT !.pump = "send_" \o chan, !.held = data]

\* one turn of the pump's loop: events.next() and the if-chain
PumpNext ==
    /\ sh.pump = "run"
    /\ sh.pumped < Len(sh.notified)
    /\ LET n == sh.notified[sh.pumped + 1]
           s == [sh EXCEPT !.pumped = sh.pumped + 1]
           r == Route(n.uuid)
       IN sh' = CASE r \in {"rx", "ctl"} -> SendTo(s, r, n.value)
                  [] r = "battery" ->
                       IF Len(n.value) # 1
                       THEN [s EXCEPT !.pump = "panicked"]
                       ELSE [s EXCEPT !.battery = n.value[1]]
                  [] OTHER -> s
    /\ UNCHANGED <<sessVars, ym, cx, js, ua, tx, nw>>

\* events.next() returns None: "Notifications stream ended"
PumpEnd ==
    /\ sh.pump = "run"
    /\ sh.pumped = Len(sh.notified) /\ ~sh.open
    /\ sh' = [sh EXCEPT !.pump = "ended"]
    /\ UNCHANGED <<sessVars, ym, cx, js, ua, tx, nw>>

\* a waiting send completes: room was made, or the receiver was dropped
PumpResume ==
    /\ sh.pump \in {"send_ctl", "send_rx"}
    /\ LET chan == IF sh.pump = "send_ctl" THEN "ctl" ELSE "rx" IN
          /\ ~sh.alive \/ Len(sh[chan]) < InboxDepth
          /\ sh' = SendTo([sh EXCEPT !.pump = "run", !.held = <<>>], chan, sh.held)
    /\ UNCHANGED <<sessVars, ym, cx, js, ua, tx, nw>>

\* CtlChannel::recv_ctl_raw takes a frame from ctl_recv
CtlTake ==
    /\ sh.pump # "off" /\ sh.alive /\ sh.ctl # <<>>
    /\ sh' = [sh EXCEPT !.ctl = Tail(sh.ctl), !.ctlGot = Append(sh.ctlGot, Head(sh.ctl))]
    /\ UNCHANGED <<sessVars, ym, cx, js, ua, tx, nw>>

\* the stream manager task of UartChannel takes a frame from rx_recv
RxTake ==
    /\ sh.pump # "off" /\ sh.alive /\ sh.rx # <<>>
    /\ sh' = [sh EXCEPT !.rx = Tail(sh.rx), !.rxGot = Append(sh.rxGot, Head(sh.rx))]
    /\ UNCHANGED <<sessVars, ym, cx, js, ua, tx, nw>>

\* the XossTransport is dropped (or consumed by disconnect): both receivers
\* go with it, and so does the AbortHandle, on which abort() was never called
DropTransport ==
    /\ sh.pump # "off" /\ sh.alive
    /\ sh' = [sh EXCEPT !.alive = FALSE, !.ctl = <<>>, !.rx = <<>>]
    /\ UNCHANGED <<sessVars, ym, cx, js, ua, tx, nw>>

InitPump ==
    /\ pc = [p \in Procs |-> IF p = Opener THEN "opened" ELSE "idle"]
    /\ op = [p \in Procs |-> "none"]
    /\ req = [p \in Procs |-> NoMsg]
    /\ arg = [p \in Procs |-> <<>>]
    /\ left = [p \in Procs |-> 0]
    /\ seq = [p \in Procs |-> 0]
    /\ trace = [p \in Procs |-> <<>>]
    /\ myRid = [p \in Procs |-> None]
    /\ gotRid = [p \in Procs |-> None]
    /\ fin = NoFin
    /\ faulted = FALSE
    /\ sessionLock = None
    /\ innerLock = None
    /\ streams = {}
    /\ opsStarted = 0
    /\ nextRid = 0
    /\ pending = {}
    /\ transfers = {}
    /\ unsol = 0
    /\ notifications = <<>>
    /\ ctlInbox = <<>>
    /\ ym = YmOff
    /\ cx = Off
    /\ js = Off
    /\ ua = Off
    /\ tx = Off
    /\ nw = Off
    /\ sh = ShNew

NextPump ==
    \/ Notified
    \/ StreamEnds
    \/ PumpNext
    \/ PumpEnd
    \/ PumpResume
    \/ CtlTake
    \/ RxTake
    \/ DropTransport

SpecPump == InitPump /\ [][NextPump]_vars

(* ------------------ the framing functions on their own ------------------ *)
\* One call of RawControlMessage::write followed by read, of read followed by
\* write, of YModemPacket::serialize followed by parse, or of expect_ok alone,
\* on a given value.

\* n bytes that differ from each other and depend on fill
BytesOf(n, fill) == [i \in 1..n |-> (fill + 7 * i) % 256]

\* the longest body a CtlBuffer has room for
MaxBody == CTL_BUFFER_SIZE - 2

\* type bytes that are no ControlMessageType
UnknownTypes == {1, 254}

\* CRC-16/ARC (polynomial 0x8005 reflected: 0xA001, initial value 0, no final
\* xor), one input bit at a time, lowest bit first
CrcBit(crc, bit) ==
    LET mix == (crc + bit) % 2
        sh1 == crc \div 2
    IN IF mix = 0 THEN sh1
       ELSE \* sh1 xor 0xA001: bits 15, 13 and 0
            LET b15 == IF sh1 \div 32768 = 1 THEN sh1 - 32768 ELSE sh1 + 32768
                b13 == IF (b15 \div 8192) % 2 = 1 THEN b15 - 8192 ELSE b15 + 8192
            IN IF b13 % 2 = 1 THEN b13 - 1 ELSE b13 + 1

CrcByte(crc, byte) ==
    LET F[k \in 0..8] ==
            IF k = 0 THEN crc
            ELSE CrcBit(F[k - 1], (byte \div (2 ^ (k - 1))) % 2)
    IN F[8]

\* the bytes lo..hi of the data are folded, in order, into the CRC so far (the
\* range is halved to keep the evaluation shallow)
RECURSIVE CrcRun(_, _, _, _)
CrcRun(crc, data, lo, hi) ==
    IF lo > hi THEN crc
    ELSE IF lo = hi THEN CrcByte(crc, data[lo])
    ELSE LET mid == (lo + hi) \div 2
             head == CrcRun(crc, data, lo, mid)
         IN IF head < 0 THEN head ELSE CrcRun(head, data, mid + 1, hi)

\* crc16::State::<crc16::ARC>::calculate(data)
Crc16Arc(data) == CrcRun(0, data, 1, Len(data))

\* a serialize that sends the low byte of the CRC first
serialize_low_first(sq, data) ==
    LET crc == Crc16Arc(data) IN
    <<start_byte(Len(data)), sq, 255 - sq>> \o data \o <<crc % 256, crc \div 256>>

\* YModemPacket::serialize
serialize(sq, data) ==
    LET crc == Crc16Arc(data) IN
    <<start_byte(Len(data)), sq, 255 - sq>> \o data \o <<crc \div 256, crc % 256>>

\* YModemPacket::parse
parse(raw) ==
    IF Len(raw) < 2 THEN [st |-> "InvalidLength"]
    ELSE IF data_len(raw[1]) = 0 THEN [st |-> "InvalidStart"]
    ELSE IF Len(raw) # data_len(raw[1]) + 5 THEN [st |-> "InvalidLength"]
    ELSE IF raw[2] # 255 - raw[3] THEN [st |-> "InvalidSeq"]
    ELSE LET data == SubSeq(raw, 4, Len(raw) - 2)
             crc == raw[Len(raw) - 1] * 256 + raw[Len(raw)]
         IN IF crc # Crc16Arc(data) THEN [st |-> "InvalidCrc"]
            ELSE [st |-> "ok", seq |-> raw[2], data |-> data]

\* the values the functions are called with
CodecInputs ==
    {[fn |-> "write", t |-> t, b |-> BytesOf(n, fill)] :
        t \in ControlMessageType, n \in 0..MaxBody, fill \in {0, 200}}
    \cup {[fn |-> "read", buf |-> <<t>> \o BytesOf(n, 3) \o <<(calc_checksum(<<t>> \o BytesOf(n, 3)) + d) % 256>>] :
        t \in ControlMessageType \cup UnknownTypes, n \in 0..MaxBody, d \in {0, 1}}
    \cup {[fn |-> "serialize", seq |-> s, data |-> BytesOf(SMALL_DATA_SIZE, 0)] : s \in 0..255}
    \cup {[fn |-> "serialize", seq |-> s, data |-> BytesOf(LARGE_DATA_SIZE, 5)] : s \in {0, 1, 255}}
    \cup {[fn |-> "expect_ok", t |-> t, b |-> b, ty |-> ty] :
        t \in ControlMessageType, ty \in ControlMessageType,
        b \in {<<>>, <<0>>, <<0, 0>>, FileName, BadUtf8}}

InitCodec ==
    /\ pc = [p \in Procs |-> IF p = Opener THEN "opened" ELSE "idle"]
    /\ op = [p \in Procs |-> "none"]
    /\ req = [p \in Procs |-> NoMsg]
    /\ Fresh
    /\ js = Off
    /\ ua = Off
    /\ tx = Off
    /\ nw = Off
    /\ \E in \in CodecInputs : cx = [pc |-> "in", in |-> in]

\* the first function is applied
Apply ==
    /\ cx.pc = "in"
    /\ LET in == cx.in IN
       cx' = [pc |-> "mid", in |-> in,
              mid |-> CASE in.fn = "write" -> Write(in.t, in.b)
                        [] in.fn = "read" -> Read(in.buf)
                        [] in.fn = "expect_ok" -> ExpectOk([t |-> in.t, b |-> in.b], in.ty)
                        [] OTHER -> [st |-> "ok", raw |-> serialize(in.seq, in.data)]]
    /\ UNCHANGED <<sessVars, ym, sh, js, ua, tx, nw>>

\* the other function is applied to what the first returned
ApplyBack ==
    /\ cx.pc = "mid" /\ cx.mid.st = "ok" /\ cx.in.fn # "expect_ok"
    /\ LET in == cx.in
           mid == cx.mid
       IN cx' = [pc |-> "out", in |-> in, mid |-> mid,
                 out |-> CASE in.fn = "write" -> Read(mid.raw)
                           [] in.fn = "read" -> Write(mid.t, mid.b)
                           [] OTHER -> parse(mid.raw)]
    /\ UNCHANGED <<sessVars, ym, sh, js, ua, tx, nw>>

NextCodec == Apply \/ ApplyBack

SpecCodec == InitCodec /\ [][NextCodec]_vars

(* ----------------------- the JSON header of a session ------------------- *)
\* The calls read_json_file and write_json_file of the callers of one session;
\* read_file and write_file are taken as whole calls whose outcome is the
\* device's.

MaxJsonOps == 3

\* HeaderJson values of two firmware generations
Headers ==
    {[device_model |-> "XOSS G+", sn |-> "A1", updated_at |-> 1, version |-> "2.0.0"],
     [device_model |-> "XOSS G+", sn |-> "A1", updated_at |-> 2, version |-> "1.0.0"]}

Payloads == {"p1", "p2"}

\* the text of a JSON file: the header's fields flattened beside the payload
Doc(at_key, h, body) ==
    [k |-> "json", device_model |-> h.device_model, sn |-> h.sn,
     at_key |-> at_key, at |-> h.updated_at, version |-> h.version, body |-> body]

\* what read_file returns: a file of either spelling of updated_at, a file
\* whose payload is not of the type asked for, bytes that are no JSON
DeviceFiles ==
    {Doc(key, h, body) : key \in {"updated_at", "update_at"}, h \in Headers,
                         body \in Payloads \cup {"mistyped"}}
    \cup {[k |-> "garbage"]}

\* serde_json::from_str::<WithHeader<T>>
from_str(doc) ==
    IF doc.k # "json" \/ doc.body \notin Payloads THEN [st |-> "err"]
    ELSE [st |-> "ok",
          header |-> [device_model |-> doc.device_model, sn |-> doc.sn,
                      updated_at |-> doc.at, version |-> doc.version],
          data |-> doc.body]

\* serde_json::to_string(&WithHeader { header, data })
to_string(header, data) == Doc("updated_at", header, data)

\* a cell that every read overwrites (a cell is <<>> when empty, <<h>> when set)
get_or_replace(cell, header) == <<header>>

\* OnceCell::get_or_init
get_or_init(cell, header) == IF cell = <<>> THEN <<header>> ELSE cell

JsNew ==
    [pc |-> [p \in Callers |-> "idle"],
     op |-> [p \in Callers |-> "none"],
     data |-> [p \in Callers |-> None],
     file |-> [p \in Callers |-> None],
     header |-> [p \in Callers |-> <<>>],
     locks |-> [p \in Callers |-> 0],
     lock |-> None,
     json_header |-> <<>>,
     first |-> <<>>,
     written |-> <<>>,
     ops |-> 0]

InitJson ==
    /\ pc = [p \in Procs |-> IF p = Opener THEN "opened" ELSE "idle"]
    /\ op = [p \in Procs |-> "none"]
    /\ req = [p \in Procs |-> NoMsg]
    /\ Fresh
    /\ cx = Off
    /\ ua = Off
    /\ tx = Off
    /\ nw = Off
    /\ js = JsNew

\* read_json_file is called
ReadJsonFile(p) ==
    /\ js.pc[p] = "idle" /\ js.ops < MaxJsonOps
    /\ js' = [js EXCEPT !.pc[p] = "read_file", !.op[p] = "read", !.locks[p] = 0,
                        !.ops = @ + 1]
    /\ UNCHANGED <<sessVars, ym, sh, cx, ua, tx, nw>>

\* a write_json_file that never reads the profile first
header_assumed(cell) == "write_file"

\* get_device_json_header: the cached header is taken, the user profile is
\* read when there is none
get_device_json_header(cell) == IF cell = <<>> THEN "read_file" ELSE "write_file"

\* write_json_file is called
WriteJsonFile(p) ==
    /\ js.pc[p] = "idle" /\ js.ops < MaxJsonOps
    /\ \E data \in Payloads :
          js' = [js EXCEPT !.pc[p] = get_device_json_header(js.json_header),
                           !.op[p] = "write", !.data[p] = data, !.locks[p] = 0,
                           !.header[p] = js.json_header, !.ops = @ + 1]
    /\ UNCHANGED <<sessVars, ym, sh, cx, ua, tx, nw>>

\* read_file and write_file begin with self.transport.lock().await
LockTransport(p) ==
    /\ js.pc[p] \in {"read_file", "write_file"}
    /\ MutexFree(js.lock)
    /\ js' = [js EXCEPT !.pc[p] = IF @ = "read_file" THEN "reading" ELSE "writing",
                        !.lock = p, !.locks[p] = @ + 1]
    /\ UNCHANGED <<sessVars, ym, sh, cx, ua, tx, nw>>

\* read_file returns, with a file or with an error; its guard is dropped
ReadFileDone(p) ==
    /\ js.pc[p] = "reading"
    /\ \/ \E f \in DeviceFiles :
             js' = [js EXCEPT !.pc[p] = "parse", !.file[p] = f, !.lock = Released(@, p)]
       \/ js' = [js EXCEPT !.pc[p] = "idle", !.op[p] = "none", !.data[p] = None,
                           !.lock = Released(@, p)]
    /\ UNCHANGED <<sessVars, ym, sh, cx, ua, tx, nw>>

\* the rest of read_json_file: the file is parsed and its header offered to the
\* cell; get_device_json_header then takes the cell's header
ParseJson(p) ==
    /\ js.pc[p] = "parse"
    /\ LET r == from_str(js.file[p]) IN
       IF r.st # "ok"
       THEN js' = [js EXCEPT !.pc[p] = "idle", !.op[p] = "none", !.data[p] = None,
                             !.file[p] = None]
       ELSE LET cell == get_or_init(js.json_header, r.header) IN
            js' = [js EXCEPT !.json_header = cell,
                             !.first = IF @ = <<>> THEN <<r.header>> ELSE @,
                             !.file[p] = None,
                             !.header[p] = IF js.op[p] = "write" THEN cell ELSE <<>>,
                             !.pc[p] = IF js.op[p] = "write" THEN "write_file" ELSE "idle",
                             !.op[p] = IF js.op[p] = "write" THEN "write" ELSE "none"]
    /\ UNCHANGED <<sessVars, ym, sh, cx, ua, tx, nw>>

\* the rest of write_json_file: the header and the payload are serialized and
\* written (the write itself succeeds or fails); write_file's guard is dropped
WriteFileDone(p) ==
    /\ js.pc[p] = "writing"
    /\ \E ok \in BOOLEAN :
          js' = [js EXCEPT !.pc[p] = "idle", !.op[p] = "none", !.data[p] = None,
                           !.header[p] = <<>>, !.lock = Released(@, p),
                           !.written = Append(@, [text |-> to_string(js.header[p][1], js.data[p]),
                                                  data |-> js.data[p], ok |-> ok])]
    /\ UNCHANGED <<sessVars, ym, sh, cx, ua, tx, nw>>

NextJson ==
    \E p \in Callers :
       \/ ReadJsonFile(p)
       \/ WriteJsonFile(p)
       \/ LockTransport(p)
       \/ ReadFileDone(p)
       \/ ParseJson(p)
       \/ WriteFileDone(p)

SpecJson == InitJson /\ [][NextJson]_vars

(* ----------------------------- UART streams ----------------------------- *)
\* The RX inbox the pump fills, the stream manager task of UartChannel::new,
\* and the callers of open_stream with the UartStream handles they hold.

MaxStreams == 2
MaxFrames == 3

\* the capacity of stream_sender and of the channel of one stream
StreamDepth == 1

StreamIds == 1..MaxStreams

UaNew ==
    [rx |-> <<>>,                                \* rx_recv, filled by the pump
     stream_sender |-> <<>>,                     \* streams on their way to the manager
     current_stream |-> 0,                       \* of the manager; 0 is None
     mgr |-> "select",                           \* or "send": inside stream.send(data)
     data |-> 0,                                 \* the frame the manager is sending
     chan |-> [s \in StreamIds |-> <<>>],        \* the channel of each stream
     live |-> {},                                \* handles returned and not dropped
     read |-> [s \in StreamIds |-> <<>>],        \* frames each handle has yielded
     wrote |-> {},                               \* handles that wrote to TX
     opened |-> 0,                               \* open_stream calls that returned
     opened_at |-> <<>>,                         \* per frame: opened when it was notified
     idle_at |-> <<>>,                           \* per frame: no handle was live then
     dropped |-> {}]                             \* frames the manager dropped

InitUart ==
    /\ pc = [p \in Procs |-> IF p = Opener THEN "opened" ELSE "idle"]
    /\ op = [p \in Procs |-> "none"]
    /\ req = [p \in Procs |-> NoMsg]
    /\ Fresh
    /\ cx = Off
    /\ js = Off
    /\ ua = UaNew
    /\ tx = Off
    /\ nw = Off

\* UartChannel::open_stream: a channel is made, its sender handed to the
\* manager (waiting while stream_sender is full), the handle returned
OpenStream ==
    /\ ua.opened < MaxStreams
    /\ Len(ua.stream_sender) < StreamDepth
    /\ LET s == ua.opened + 1 IN
       ua' = [ua EXCEPT !.stream_sender = Append(@, s), !.live = @ \cup {s}, !.opened = s]
    /\ UNCHANGED <<sessVars, ym, sh, cx, js, tx, nw>>

\* the pump sends a notified RX frame into rx_recv (it waits while it is full)
RxNotify ==
    /\ Len(ua.opened_at) < MaxFrames
    /\ Len(ua.rx) < InboxDepth
    /\ ua' = [ua EXCEPT !.rx = Append(@, Len(ua.opened_at) + 1),
                        !.opened_at = Append(@, ua.opened),
                        !.idle_at = Append(@, ua.live = {})]
    /\ UNCHANGED <<sessVars, ym, sh, cx, js, tx, nw>>

\* the manager's select! takes a new stream: it replaces the current one
ManagerStream ==
    /\ ua.mgr = "select"
    /\ ua.stream_sender # <<>>
    /\ ua' = [ua EXCEPT !.current_stream = Head(ua.stream_sender),
                        !.stream_sender = Tail(@)]
    /\ UNCHANGED <<sessVars, ym, sh, cx, js, tx, nw>>

\* the manager's select! takes a frame: dropped when no stream is current,
\* else sent to the current stream
ManagerFrame ==
    /\ ua.mgr = "select"
    /\ ua.rx # <<>>
    /\ ua' = IF ua.current_stream = 0
             THEN [ua EXCEPT !.rx = Tail(@), !.dropped = @ \cup {Head(ua.rx)}]
             ELSE [ua EXCEPT !.rx = Tail(@), !.mgr = "send", !.data = Head(ua.rx)]
    /\ UNCHANGED <<sessVars, ym, sh, cx, js, tx, nw>>

\* stream.send(data).await ends: with an error when the handle was dropped
\* (the stream is then considered closed), else when the channel has room
ManagerSend ==
    /\ ua.mgr = "send"
    /\ LET s == ua.current_stream IN
       IF s \notin ua.live
       THEN ua' = [ua EXCEPT !.mgr = "select", !.data = 0, !.current_stream = 0,
                             !.dropped = @ \cup {ua.data}]
       ELSE /\ Len(ua.chan[s]) < StreamDepth
            /\ ua' = [ua EXCEPT !.mgr = "select", !.data = 0,
                                !.chan[s] = Append(@, ua.data)]
    /\ UNCHANGED <<sessVars, ym, sh, cx, js, tx, nw>>

\* AsyncRead for UartStream: the handle yields the next frame of its channel
StreamRead(s) ==
    /\ s \in ua.live
    /\ ua.chan[s] # <<>>
    /\ ua' = [ua EXCEPT !.chan[s] = Tail(@), !.read[s] = Append(@, Head(ua.chan[s]))]
    /\ UNCHANGED <<sessVars, ym, sh, cx, js, tx, nw>>

\* AsyncWrite for UartStream: the handle writes to the TX characteristic
StreamWrite(s) ==
    /\ s \in ua.live
    /\ s \notin ua.wrote
    /\ ua' = [ua EXCEPT !.wrote = @ \cup {s}]
    /\ UNCHANGED <<sessVars, ym, sh, cx, js, tx, nw>>

\* the handle is dropped, and what its channel held with it
StreamDrop(s) ==
    /\ s \in ua.live
    /\ ua' = [ua EXCEPT !.live = @ \ {s}, !.chan[s] = <<>>]
    /\ UNCHANGED <<sessVars, ym, sh, cx, js, tx, nw>>

NextUart ==
    \/ OpenStream
    \/ RxNotify
    \/ ManagerStream
    \/ ManagerFrame
    \/ ManagerSend
    \/ \E s \in StreamIds : StreamRead(s) \/ StreamWrite(s) \/ StreamDrop(s)

SpecUart == InitUart /\ [][NextUart]_vars

(* ----------------------- the write side of a stream --------------------- *)
\* One UartStream and its caller: write_all, flush and read are driven through
\* poll_write, poll_flush and poll_read; the bytes the caller gives are numbered
\* 1, 2, .. in order, so that a slice is the range lo..hi of its bytes.

MaxCalls == 3

\* mtu of UartChannel::new
MTU == 206

\* the lengths of the buffers given to write_all
WriteSizes == {0, 1, MTU, MTU + 1, 2 * MTU + 1}

\* write_box_future: "initial" is the async { Ok(()) } of open_stream, "set" a
\* write not polled yet, "inflight" a write handed to the BLE layer, "ok" and
\* "err" a write the BLE layer has ended, "finished" a future polled to its end
TxNew ==
    [pc |-> "idle",                      \* or the call in progress
     lo |-> 1, hi |-> 0,                 \* what write_all has still to write
     given |-> 0,                        \* bytes given to write_all so far
     write_finished |-> TRUE,
     fut |-> [st |-> "initial", lo |-> 1, hi |-> 0],
     sent |-> <<>>,                      \* the writes handed to the BLE layer
     done |-> 0,                         \* the writes the BLE layer has ended
     res |-> "none",                     \* how the last call ended
     last |-> "none",                    \* the last call
     failed |-> FALSE,                   \* some call ended with an error
     calls |-> 0]

InitTx ==
    /\ pc = [p \in Procs |-> IF p = Opener THEN "opened" ELSE "idle"]
    /\ op = [p \in Procs |-> "none"]
    /\ req = [p \in Procs |-> NoMsg]
    /\ Fresh
    /\ cx = Off
    /\ js = Off
    /\ ua = Off
    /\ tx = TxNew
    /\ nw = Off
    /\ nw = Off

\* a poll_write_ready that does not wait for the write in flight
poll_write_ready_eager(t) ==
    IF t.write_finished \/ t.fut.st = "inflight" THEN [out |-> "ready", t |-> t]
    ELSE CASE t.fut.st = "set" ->
                [out |-> "pending",
                 t |-> [t EXCEPT !.fut.st = "inflight",
                                 !.sent = Append(@, [lo |-> t.fut.lo, hi |-> t.fut.hi,
                                                     kind |-> "WithoutResponse"])]]
           [] t.fut.st = "ok" ->
                [out |-> "ready", t |-> [t EXCEPT !.write_finished = TRUE, !.fut.st = "finished"]]
           [] t.fut.st = "err" ->
                [out |-> "err", t |-> [t EXCEPT !.fut.st = "finished"]]
           [] OTHER -> [out |-> "panic", t |-> t]

\* UartStream::poll_write_ready: the future of the last write is polled unless
\* it has finished; its first poll hands the write to the BLE layer
poll_write_ready(t) ==
    IF t.write_finished THEN [out |-> "ready", t |-> t]
    ELSE CASE t.fut.st = "set" ->
                [out |-> "pending",
                 t |-> [t EXCEPT !.fut.st = "inflight",
                                 !.sent = Append(@, [lo |-> t.fut.lo, hi |-> t.fut.hi,
                                                     kind |-> "WithoutResponse"])]]
           [] t.fut.st = "inflight" -> [out |-> "pending", t |-> t]
           [] t.fut.st = "ok" ->
                [out |-> "ready", t |-> [t EXCEPT !.write_finished = TRUE, !.fut.st = "finished"]]
           [] t.fut.st = "err" ->
                [out |-> "err", t |-> [t EXCEPT !.fut.st = "finished"]]
           [] OTHER -> [out |-> "panic", t |-> t]   \* a finished future is polled

\* a chunk that is the whole buffer
buf_len_whole(len) == len

\* poll_write: std::cmp::min(buf.len(), this.mtu)
buf_len(len) == Min(len, MTU)

\* the call ends: with Ok, with the error of the write, or in a panic
TxEnd(t, out) ==
    IF out = "panic" THEN [t EXCEPT !.pc = "panicked", !.res = "panic", !.failed = TRUE]
    ELSE [t EXCEPT !.pc = "idle", !.res = out, !.failed = @ \/ out # "ok"]

\* write_all is called with a buffer of n bytes
WriteAll ==
    /\ tx.pc = "idle" /\ tx.calls < MaxCalls
    /\ \E n \in WriteSizes :
          LET t == [tx EXCEPT !.calls = @ + 1, !.last = "write_all",
                              !.lo = tx.given + 1, !.hi = tx.given + n,
                              !.given = @ + n]
          IN tx' = IF n = 0 THEN TxEnd(t, "ok") ELSE [t EXCEPT !.pc = "write_all"]
    /\ UNCHANGED <<sessVars, ym, sh, cx, js, ua, nw>>

\* flush or read is called
FlushOrRead ==
    /\ tx.pc = "idle" /\ tx.calls < MaxCalls
    /\ \E o \in {"flush", "read"} :
          tx' = [tx EXCEPT !.calls = @ + 1, !.last = o, !.pc = o]
    /\ UNCHANGED <<sessVars, ym, sh, cx, js, ua, nw>>

\* poll_write, called by write_all until the buffer is written
PollWrite ==
    /\ tx.pc = "write_all"
    /\ LET r == poll_write_ready(tx) IN
       /\ r.out = "pending" => r.t # tx
       /\ IF r.out = "pending" THEN tx' = r.t
          ELSE IF r.out # "ready" THEN tx' = TxEnd(r.t, r.out)
          ELSE LET n == buf_len(tx.hi - tx.lo + 1)
                   t == [r.t EXCEPT !.fut = [st |-> "set", lo |-> tx.lo, hi |-> tx.lo + n - 1],
                                    !.write_finished = FALSE,
                                    !.lo = @ + n]
               IN tx' = IF t.lo > t.hi THEN TxEnd(t, "ok") ELSE t
    /\ UNCHANGED <<sessVars, ym, sh, cx, js, ua, nw>>

\* poll_flush, and poll_read up to its read of the inbox
PollFlush ==
    /\ tx.pc \in {"flush", "read"}
    /\ LET r == poll_write_ready(tx) IN
       /\ r.out = "pending" => r.t # tx
       /\ tx' = IF r.out = "pending" THEN r.t ELSE TxEnd(r.t, IF r.out = "ready" THEN "ok" ELSE r.out)
    /\ UNCHANGED <<sessVars, ym, sh, cx, js, ua, nw>>

\* the BLE layer ends the write in flight, with or without an error
BleDone ==
    /\ tx.fut.st = "inflight"
    /\ \E st \in {"ok", "err"} : tx' = [tx EXCEPT !.fut.st = st, !.done = @ + 1]
    /\ UNCHANGED <<sessVars, ym, sh, cx, js, ua, nw>>

NextTx == WriteAll \/ FlushOrRead \/ PollWrite \/ PollFlush \/ BleDone

SpecTx == InitTx /\ [][NextTx]_vars

(* --------------------------- XossTransport::new ------------------------- *)
\* One call of XossTransport::new on a peripheral: what the peripheral offers
\* and which of its answers fail is the peripheral's choice.

TX_CHARACTERISTIC_UUID == "tx"

\* the device information characteristics, in the order they are read
InfoCharacteristics ==
    <<"firmware_revision", "manufacturer_name", "model_number",
      "hardware_revision", "serial_number">>

\* the streams alone
required_triple ==
    {TX_CHARACTERISTIC_UUID, RX_CHARACTERISTIC_UUID, CTL_CHARACTERISTIC_UUID}

\* the keys of required_characteristics
required_characteristics ==
    {TX_CHARACTERISTIC_UUID, RX_CHARACTERISTIC_UUID, CTL_CHARACTERISTIC_UUID,
     BATTERY_LEVEL_CHARACTERISTIC_UUID}
    \cup {InfoCharacteristics[i] : i \in 1..Len(InfoCharacteristics)}

\* the characteristics subscribed to, in order
Subscribed ==
    <<RX_CHARACTERISTIC_UUID, CTL_CHARACTERISTIC_UUID, BATTERY_LEVEL_CHARACTERISTIC_UUID>>

NwNew == [pc |-> "discover", found |-> {}, i |-> 0, log |-> <<>>, res |-> NoRes]

InitNew ==
    /\ pc = [p \in Procs |-> IF p = Opener THEN "opened" ELSE "idle"]
    /\ op = [p \in Procs |-> "none"]
    /\ req = [p \in Procs |-> NoMsg]
    /\ Fresh
    /\ cx = Off
    /\ js = Off
    /\ ua = Off
    /\ tx = Off
    /\ nw = NwNew

\* new returns an error, or its task panics
NwFail(r) == nw' = [nw EXCEPT !.pc = "failed", !.res = r]

\* device.discover_services(), then the characteristics of the peripheral are
\* looked up and new bails out on the first one that is missing
Discover ==
    /\ nw.pc = "discover"
    /\ \/ NwFail(Err("Failed to discover services", <<>>))
       \/ \E found \in SUBSET (required_characteristics \cup {"other"}) :
             IF required_characteristics \subseteq found
             THEN nw' = [nw EXCEPT !.pc = "notifications", !.found = found]
             ELSE nw' = [nw EXCEPT !.pc = "failed", !.found = found,
                                   !.res = Err("Missing characteristic", <<>>)]
    /\ UNCHANGED <<sessVars, ym, sh, cx, js, ua, tx>>

\* device.notifications(), then the pump is spawned
Notifications ==
    /\ nw.pc = "notifications"
    /\ \/ NwFail(Err("Failed to get notifications", <<>>))
       \/ nw' = [nw EXCEPT !.pc = "subscribe", !.i = 1, !.log = Append(@, <<"pump", "">>)]
    /\ UNCHANGED <<sessVars, ym, sh, cx, js, ua, tx>>

\* device.subscribe(..) of RX, CTL and the battery level
Subscribe ==
    /\ nw.pc = "subscribe"
    /\ \/ NwFail(Err("Failed to subscribe", <<>>))
       \/ nw' = [nw EXCEPT !.log = Append(@, <<"subscribe", Subscribed[nw.i]>>),
                           !.pc = IF nw.i = Len(Subscribed) THEN "read" ELSE @,
                           !.i = IF nw.i = Len(Subscribed) THEN 1 ELSE @ + 1]
    /\ UNCHANGED <<sessVars, ym, sh, cx, js, ua, tx>>

\* read_chara_string of each device information characteristic
ReadInfo ==
    /\ nw.pc = "read"
    /\ \/ NwFail(Err("Failed to read", <<>>))
       \/ NwFail(Err("is not valid UTF-8", <<>>))
       \/ nw' = [nw EXCEPT !.log = Append(@, <<"read", InfoCharacteristics[nw.i]>>),
                           !.pc = IF nw.i = Len(InfoCharacteristics) THEN "battery" ELSE @,
                           !.i = IF nw.i = Len(InfoCharacteristics) THEN 0 ELSE @ + 1]
    /\ UNCHANGED <<sessVars, ym, sh, cx, js, ua, tx>>

\* device.read(&battery_level_characteristic)?[0]: the read fails, returns no
\* byte (the index panics), or gives the level; then new returns the transport
ReadBattery ==
    /\ nw.pc = "battery"
    /\ \/ NwFail(Err("Failed to read battery level", <<>>))
       \/ NwFail(Panic("index"))
       \/ nw' = [nw EXCEPT !.log = Append(@, <<"read", BATTERY_LEVEL_CHARACTERISTIC_UUID>>),
                           !.pc = "done", !.res = Ok(<<>>)]
    /\ UNCHANGED <<sessVars, ym, sh, cx, js, ua, tx>>

NextNew == Discover \/ Notifications \/ Subscribe \/ ReadInfo \/ ReadBattery

SpecNew == InitNew /\ [][NextNew]_vars

(* ================================ claims ================================ *)
Has(tr, e) == \E i \in 1..Len(tr) : tr[i] = e
Before(tr, e, i) == \E j \in 1..(i - 1) : tr[j] = e
LastEv(tr) == tr[Len(tr)]

XferPcs == {"rx_init", "rx_data", "rx_eot", "tx_init", "tx_data", "tx_eot"}

\* C1: the message request_ctl returns to a process is the frame the device
\* sent in reply to the request that process wrote, never a frame the device
\* produced for an earlier request or unsolicited (violated: the inbox is not
\* drained before a request, so a stale frame is taken for the reply).
C1_ReplyAnswersRequest ==
    /\ \A p \in Procs : gotRid[p] # None => gotRid[p] = myRid[p]
    /\ fin.gotRid # None => fin.gotRid = fin.myRid

\* C2: while the request of a caller is in flight (written, its reply neither
\* received nor timed out), no frame is written to CTL and nobody but that
\* caller takes a frame from the CTL inbox; at most one request is in flight.
C2_OneRequestInFlight ==
    [][/\ Cardinality({p \in Callers : pc[p] = "ctl_wait"}) <= 1
       /\ \A p \in Callers :
            pc[p] = "ctl_wait" =>
                /\ nextRid' = nextRid
                /\ Len(ctlInbox') < Len(ctlInbox) => pc'[p] # "ctl_wait"]_vars

C2_Witness ==
    \E p \in Callers : \E q \in Callers \ {p} :
        pc[p] = "ctl_wait" /\ pc[q] = "acquire" /\ op[p] \notin TransferOps

\* C3: while a read_file or write_file is active (its request written, its
\* trailing Idle not yet received, not failed), no control request is written
\* to CTL at all: the only control traffic of a transfer is its own bracket.
TransferActive(p) ==
    op[p] \in TransferOps /\ pc[p] \in XferPcs \cup {"ctl_wait", "idle_wait"}

C3_NoControlDuringTransfer ==
    [][\A p \in Callers :
         TransferActive(p) =>
            /\ nextRid' = nextRid
            /\ \A q \in Callers \ {p} : pc'[q] \in {"idle", "acquire", "crashed"}
            /\ Len(ctlInbox') < Len(ctlInbox) => pc[p] \in {"ctl_wait", "idle_wait"}]_vars

C3_Witness ==
    \E p \in Callers : \E q \in Callers \ {p} :
        TransferActive(p) /\ pc[p] \in XferPcs /\ pc[q] = "acquire"

\* C4: at most one file transfer exists, and the caller that runs it holds
\* the device lock from before its stream is opened until the stream is gone.
C4_OneTransfer ==
    /\ Cardinality(streams) <= 1
    /\ Cardinality({p \in Callers : pc[p] \in XferPcs}) <= 1
    /\ \A p \in Callers :
         /\ p \in streams => sessionLock = p
         /\ pc[p] \in XferPcs => p \in streams

C4_Witness ==
    \E p \in Callers : \E q \in Callers \ {p} :
        pc[p] \in {"rx_data", "tx_data"} /\ streams = {p} /\ pc[q] = "acquire"

\* C5: a transfer that failed mid-stream (after Returning/Accept) returns its
\* error only after RequestStop was written and Idle received (violated:
\* read_file and write_file return the error at once).
C5_StopAfterFailedTransfer ==
    (/\ fin.op \in TransferOps
     /\ fin.res.st = "err"
     /\ fin.res.why \in ReadFailures \cup ByteFailures)
    => \E i \in 1..Len(fin.trace) :
         /\ fin.trace[i] = Ev("ctlw", RequestStop, <<>>)
         /\ \E j \in (i + 1)..Len(fin.trace) :
              fin.trace[j].k = "ctlr" /\ fin.trace[j].t = Idle

\* C6: when the reply to RequestReturn(name) is a device error, read_file
\* returns that error kind (NoFile(b) for ErrNoFile with body b) without
\* having written to the UART, with the lock released and the caller able to
\* go on (violated: a body that is not UTF-8 makes into_result panic).
ErrorKindOf(m) ==
    CASE m.t = ErrVali -> Err("Validation", <<>>)
      [] m.t = ErrNoFile -> Err("NoFile", m.b)
      [] m.t = ErrMemory -> Err("NoMemory", <<>>)
      [] m.t = ErrStatus ->
            IF m.b = <<0>> THEN Err("InvalidTransactionStatus", <<>>)
            ELSE Err("InvalidFileStatus", m.b)
      [] OTHER -> Err("DecodeFailed", m.b)

C6_DeviceErrorPropagates ==
    (/\ fin.op = "read"
     /\ Len(fin.trace) = 3
     /\ fin.trace[3].k = "ctlr"
     /\ fin.trace[3].t \in ErrorTypes)
    => /\ fin.res = ErrorKindOf(fin.trace[3])
       /\ \A i \in 1..Len(fin.trace) : fin.trace[i].k \notin {"txw", "txpkt"}
       /\ sessionLock # fin.p
       /\ fin.p \notin streams
       /\ pc[fin.p] = "idle"

\* C7: XossDevice::new writes StatusReturn first, writes RequestStop only
\* after a reply whose type is not Idle, writes nothing after an Idle reply,
\* and returns a session only when the last frame it received was Idle.
OpenTrace == IF fin.p = Opener THEN fin.trace ELSE trace[Opener]

C7_OpenEndsIdle ==
    /\ OpenTrace # <<>> => OpenTrace[1] = Ev("ctlw", StatusReturn, <<>>)
    /\ \A i \in 1..Len(OpenTrace) :
         OpenTrace[i] = Ev("ctlw", RequestStop, <<>>) =>
            i = 3 /\ OpenTrace[2].k = "ctlr" /\ OpenTrace[2].t # Idle
    /\ (Len(OpenTrace) >= 2 /\ OpenTrace[2].t = Idle) =>
            Len(OpenTrace) = 2 /\ pc[Opener] = "opened"
    /\ (Len(OpenTrace) >= 2 /\ OpenTrace[2].t # Idle /\ pc[Opener] = "opened") =>
            Has(OpenTrace, Ev("ctlw", RequestStop, <<>>))
    /\ (fin.p = Opener /\ fin.res.st = "ok") =>
            /\ pc[Opener] = "opened"
            /\ LastEv(fin.trace).k = "ctlr"
            /\ LastEv(fin.trace).t = Idle
    /\ (fin.p = Opener /\ fin.res.st # "ok") => pc[Opener] \in {"failed", "crashed"}
    /\ pc[Opener] = "opened" => op[Opener] = "none"

C7_Witness ==
    /\ fin.p = Opener
    /\ fin.res.st = "ok"
    /\ Has(fin.trace, Ev("ctlw", RequestStop, <<>>))

RECURSIVE RxDataEvents(_, _)
RxDataEvents(i, n) ==
    IF i > n THEN <<>> ELSE <<RxPkt(i % 256), TxW(ACK)>> \o RxDataEvents(i + 1, n)

RECURSIVE TxDataEvents(_, _)
TxDataEvents(i, n) ==
    IF i > n THEN <<>> ELSE <<TxPkt(i % 256), RxR(ACK)>> \o TxDataEvents(i + 1, n)

\* the events of a read_file of n data packets that succeeds, in order
ReadTrace(name, n) ==
    <<Ev("open", 0, <<>>), Ev("ctlw", RequestReturn, name), Ev("ctlr", Returning, name),
      TxW(CRC_C), RxPkt(0), TxW(ACK), TxW(CRC_C)>>
    \o RxDataEvents(1, n)
    \o <<RxR(EOT), TxW(NAK), RxR(EOT), TxW(ACK), Ev("ctlr", Idle, <<>>)>>

\* the events of a write_file of n data packets that succeeds, in order
WriteTrace(name, n) ==
    <<Ev("open", 0, <<>>), Ev("ctlw", RequestSend, name), Ev("ctlr", Accept, name),
      RxR(CRC_C), TxPkt(0), RxR(ACK), RxR(CRC_C)>>
    \o TxDataEvents(1, n)
    \o <<TxW(EOT), RxR(NAK), TxW(EOT), RxR(ACK), Ev("ctlr", Idle, <<>>)>>

\* all events logs: of the running operations and of the one that returned
Logs(o) ==
    {[name |-> arg[p], tr |-> trace[p]] : p \in {q \in Callers : op[q] = o}}
    \cup (IF fin.op = o THEN {[name |-> fin.arg, tr |-> fin.trace]} ELSE {})

\* C8: read_file returns bytes only after RequestReturn(name) was written,
\* Returning(name) received, the receive completed through EOT/NAK/EOT/ACK and
\* an Idle frame received, in this order; nothing is written to the UART
\* before Returning was received; without the trailing Idle it fails.
C8_ReadFileOrder ==
    /\ (fin.op = "read" /\ fin.res.st = "ok") =>
            \E n \in 0..MaxPackets : fin.trace = ReadTrace(fin.arg, n)
    /\ \A l \in Logs("read") : \A i \in 1..Len(l.tr) :
            l.tr[i].k \in {"txw", "txpkt"} =>
                Before(l.tr, Ev("ctlr", Returning, l.name), i)
    /\ (/\ fin.op = "read"
        /\ Has(fin.trace, RxR(EOT))
        /\ ~(LastEv(fin.trace).k = "ctlr" /\ LastEv(fin.trace).t = Idle)) =>
            fin.res.st # "ok"

C8_Witness ==
    /\ fin.op = "read"
    /\ fin.res.st = "ok"
    /\ fin.trace = ReadTrace(FileName, 1)

\* C9: write_file reports success only after RequestSend(name) was written,
\* Accept(name) received, the send completed through the final ACK and an Idle
\* frame received, in this order; nothing is written to the UART before Accept
\* was received, and the stream is open when RequestSend is written.
C9_WriteFileOrder ==
    /\ (fin.op = "write" /\ fin.res.st = "ok") =>
            \E n \in 0..MaxPackets : fin.trace = WriteTrace(fin.arg, n)
    /\ \A l \in Logs("write") : \A i \in 1..Len(l.tr) :
            /\ l.tr[i].k \in {"txw", "txpkt"} =>
                    Before(l.tr, Ev("ctlr", Accept, l.name), i)
            /\ l.tr[i] = Ev("ctlw", RequestSend, l.name) =>
                    Before(l.tr, Ev("open", 0, <<>>), i)
    /\ \A p \in Callers :
            (op[p] = "write" /\ pc[p] \in XferPcs \cup {"ctl_wait", "idle_wait"}) =>
                p \in streams

C9_Witness ==
    /\ fin.op = "write"
    /\ fin.res.st = "ok"
    /\ fin.trace = WriteTrace(FileName, 1)

\* C10: a reply of the expected type whose body differs from the request body
\* ends the operation with a failure reported to its caller, without a
\* transfer and with the lock released (violated: assert_eq! panics, the
\* calling task is unwound instead of being handed an error).
EchoMismatch ==
    /\ fin.op \in EchoOps
    /\ LastEv(fin.trace).k = "ctlr"
    /\ LastEv(fin.trace).t = ExpectedReply(RequestOf(fin.op, fin.arg).t)
    /\ LastEv(fin.trace).b # fin.arg

C10_EchoMismatchIsAnError ==
    (fin.p # None /\ fin.trace # <<>> /\ EchoMismatch) =>
        /\ fin.res.st = "err"
        /\ pc[fin.p] = "idle"
        /\ \A i \in 1..Len(fin.trace) : fin.trace[i].k \notin {"txw", "txpkt", "rxr", "rxpkt"}
        /\ sessionLock # fin.p

\* C11: once an operation ended in a fatal fault (framing error or echo
\* mismatch), nothing is written to the device any more and every operation
\* that returns afterwards returns a State error (violated: the session keeps
\* no record of the fault, the next operation runs as usual).
C11_DeadAfterFault ==
    [][faulted =>
         /\ nextRid' = nextRid
         /\ fin'.p # None => fin'.res = Err("State", <<>>)]_vars

\* One operation is left to be called on a session that is quiet again (no
\* request unanswered, no frame queued), and the timers of recv_ctl_raw run:
\* a caller waiting for a control frame is handed the frame or its timeout.
InitTimers ==
    /\ pc = [p \in Procs |-> IF p = Opener THEN "opened" ELSE "idle"]
    /\ op = [p \in Procs |-> "none"]
    /\ req = [p \in Procs |-> NoMsg]
    /\ arg = [p \in Procs |-> <<>>]
    /\ left = [p \in Procs |-> 0]
    /\ seq = [p \in Procs |-> 0]
    /\ trace = [p \in Procs |-> <<>>]
    /\ myRid = [p \in Procs |-> None]
    /\ gotRid = [p \in Procs |-> None]
    /\ fin = NoFin
    /\ faulted = FALSE
    /\ sessionLock = None
    /\ innerLock = None
    /\ streams = {}
    /\ opsStarted = MaxOps - 1
    /\ nextRid = 0
    /\ pending = {}
    /\ transfers = {}
    /\ unsol = 0
    /\ notifications = <<>>
    /\ ctlInbox = <<>>
    /\ ym = YmOff
    /\ sh = ShOff
    /\ cx = Off
    /\ js = Off
    /\ ua = Off
    /\ tx = Off
    /\ nw = Off

\* weak fairness of CtlRecv(p) and of IdleRecv(p), the enabling condition
\* written out: a frame in the inbox is taken by the caller that waits for it
FairRecv(p) ==
    /\ \/ []<>(~(pc[p] = "ctl_wait" /\ ctlInbox # <<>>))
       \/ []<><<CtlRecv(p)>>_vars
    /\ \/ []<>(~(pc[p] = "idle_wait" /\ ctlInbox # <<>>))
       \/ []<><<IdleRecv(p)>>_vars

SpecTimers ==
    /\ InitTimers
    /\ [][Next]_vars
    /\ \A p \in Callers : WF_vars(CtlTimeout(p)) /\ WF_vars(IdleTimeout(p))
    /\ \A p \in Callers : FairRecv(p)

C13_StepTimeout ==
    /\ [][(ym'.pc = "failed" /\ ym'.why = "Elapsed" /\ ym.pc # "failed")
             => (ym.elapsed = UART_TIMEOUT - 1)]_vars
    /\ [][(ym.pc # "off" /\ ym'.pc \in {"header", "data", "eot"}
             /\ (ym'.pc # ym.pc \/ ym'.npk # ym.npk))
             => (ym'.elapsed = 0)]_vars
    /\ (ym.pc \in {"header", "data", "eot"} /\ ym.stalled)
          ~> (ym.pc = "failed" /\ ym.why = "Elapsed")

\* the device stopped inside a data packet of a transfer that had already
\* lasted longer than one budget
C13_Witness ==
    /\ ym.pc = "failed" /\ ym.why = "Elapsed" /\ ym.stalled
    /\ ym.dir = "recv" /\ ym.got = STX /\ ym.npk >= 1
    /\ ym.spent > UART_TIMEOUT

\* C14: the pump never waits on a full inbox: a frame that finds its inbox full
\* is dropped and the pump goes on with the notifications that follow
\* (violated: send().await keeps the frame and suspends the pump until the
\* consumer makes room, and no later notification is dispatched meanwhile).
C14_PumpNeverBlocks ==
    sh.pump \notin {"send_ctl", "send_rx"}

\* the values of the notifications of characteristic u in q, in order
ValuesOf(u, q) ==
    LET F[i \in 0..Len(q)] ==
            IF i = 0 THEN <<>>
            ELSE IF q[i].uuid = u THEN Append(F[i - 1], q[i].value) ELSE F[i - 1]
    IN F[Len(q)]

\* the notifications the pump has taken from the stream
Pumped == SubSeq(sh.notified, 1, sh.pumped)

IsPrefix(a, b) == Len(a) <= Len(b) /\ a = SubSeq(b, 1, Len(a))

\* what went through an inbox: taken by the consumer, queued, or in the
\* pump's hands
Through(chan, got) ==
    got \o sh[chan] \o (IF sh.pump = "send_" \o chan THEN <<sh.held>> ELSE <<>>)

\* C15: the pump dispatches by characteristic only. The frames that went to the
\* CTL inbox are the values of the CTL notifications taken so far, unmodified
\* and in order, and likewise for RX; the battery value is the byte of the
\* last battery notification; nothing else reaches an inbox.
C15_DispatchByUuid ==
    sh.pump # "off" =>
        /\ IsPrefix(sh.ctlGot, ValuesOf(CTL_CHARACTERISTIC_UUID, Pumped))
        /\ IsPrefix(sh.rxGot, ValuesOf(RX_CHARACTERISTIC_UUID, Pumped))
        /\ sh.alive =>
             /\ Through("ctl", sh.ctlGot) = ValuesOf(CTL_CHARACTERISTIC_UUID, Pumped)
             /\ Through("rx", sh.rxGot) = ValuesOf(RX_CHARACTERISTIC_UUID, Pumped)
        /\ LET b == SelectSeq(ValuesOf(BATTERY_LEVEL_CHARACTERISTIC_UUID, Pumped),
                              LAMBDA v : Len(v) = 1)
           IN sh.battery = IF b = <<>> THEN 0 ELSE b[Len(b)][1]

\* frames of every kind were dispatched and the consumers took theirs
C15_Witness ==
    /\ sh.pump = "run" /\ sh.alive
    /\ Len(sh.ctlGot) >= 2 /\ Len(sh.rxGot) >= 1 /\ sh.battery > 0
    /\ \E i \in 1..sh.pumped : Route(sh.notified[i].uuid) \in {"ignore", "warn"}

\* C16: battery_level() and device_info() do not wait for the device lock: no
\* call of them stands at the lock while another caller's transfer holds it
\* (violated: both begin with self.transport.lock().await).
C16_ReadableWithoutLock ==
    \A p \in Callers : \A q \in Callers :
        ~(/\ op[p] \in PeekOps
          /\ pc[p] = "acquire"
          /\ sessionLock = q
          /\ TransferActive(q))

\* C17: dropping the transport cancels the pump: once it is dropped the pump
\* takes no further notification from the stream
\* (violated: the AbortHandle is dropped without abort() ever being called,
\* which leaves the task running until the stream ends).
C17_DropCancelsPump ==
    [][~sh.alive => sh'.pumped = sh.pumped]_vars

\* the bytes a receive is to deliver out of data fields of the lengths ls when
\* the header declares size: of each field min(its length, what remains), up
\* to and including the first field that completes the size
Expected(ls, size) ==
    LET F[i \in 0..Len(ls)] ==
            IF i = 0 THEN [out |-> <<>>, rem |-> size]
            ELSE LET prev == F[i - 1]
                     n == Min(ls[i], prev.rem)
                 IN [out |-> Append(prev.out, [pkt |-> i, from |-> 0, len |-> n, of |-> ls[i]]),
                     rem |-> prev.rem - n]
    IN F[Len(ls)]

\* the lengths of the data fields of the packets read, in order
FieldLens == [i \in 1..Len(ym.out) |-> ym.out[i].of]

SumLens(ls) ==
    LET F[i \in 0..Len(ls)] == IF i = 0 THEN 0 ELSE F[i - 1] + ls[i]
    IN F[Len(ls)]

\* C18: a successful receive of declared size S has delivered exactly the first
\* S bytes of the concatenated data fields of packets 1, 2, ...: of each packet
\* the first min(length, remaining) bytes, nothing of the padding, from the
\* smallest number of packets whose fields hold S bytes, and from none when
\* S = 0.
C18_ReceiveDeliversPrefix ==
    (ym.pc = "done" /\ ym.dir = "recv") =>
        /\ ym.out = Expected(FieldLens, ym.size).out
        /\ SumLens([i \in 1..Len(ym.out) |-> ym.out[i].len]) = ym.size
        /\ ym.npk = Len(ym.out)
        /\ SumLens(FieldLens) >= ym.size
        /\ ym.npk > 0 => SumLens(SubSeq(FieldLens, 1, ym.npk - 1)) < ym.size
        /\ ym.size = 0 =>
             /\ ym.npk = 0
             /\ \A i \in 1..Len(ym.log) : ym.log[i].k = "rxpkt" => i = 2

\* a receive of 129 bytes framed in 1024-byte packets: one packet, 895 bytes
\* of padding left out
C18_Witness ==
    /\ ym.pc = "done" /\ ym.dir = "recv"
    /\ ym.size = SMALL_DATA_SIZE + 1
    /\ ym.out = <<[pkt |-> 1, from |-> 0, len |-> SMALL_DATA_SIZE + 1, of |-> LARGE_DATA_SIZE]>>

\* the errors of a packet that was read in full
PacketFaults == {"InvalidSeq", "InvalidCrc", "Invalid sequence number"}

\* C19: in a receive, a data packet whose sequence number is not the expected
\* one (the previous one included), or whose CRC or complement byte is wrong,
\* ends the transfer in failure; the failing step adds nothing to what was
\* written to or read from the UART (no ACK, no request to repeat) and
\* nothing to the delivered data, and nothing happens after it.
C19_BadPacketAborts ==
    /\ [](/\ ym.pc # "off"
          /\ ym.dir = "recv"
          /\ ym.last.at = "data"
          /\ (ym.last.seq # ym.last.expected \/ ~ym.last.crc_ok \/ ~ym.last.inv_ok)
          => ym.pc = "failed" /\ ym.why \in PacketFaults)
    /\ [][(ym.pc = "data" /\ ym'.pc = "failed" /\ ym'.why \in PacketFaults)
            => (ym'.log = ym.log /\ ym'.out = ym.out)]_vars
    /\ [][ym.pc = "failed" => ym' = ym]_vars

\* the second data packet came with the sequence number of the first
C19_Witness ==
    /\ ym.pc = "failed" /\ ym.dir = "recv"
    /\ ym.why = "Invalid sequence number"
    /\ ym.last.at = "data" /\ ym.last.expected = 2 /\ ym.last.seq = 1
    /\ ym.last.crc_ok /\ ym.last.inv_ok
    /\ Len(ym.out) = 1
    /\ LastEv(ym.log) = TxW(ACK)

\* the packets of the transfer, read or written, in order
PacketEvents == SelectSeq(ym.log, LAMBDA e : e.k \in {"rxpkt", "txpkt"})

\* C20: the header packet has sequence number 0 and the k-th data packet
\* k mod 256, in a receive (expected) and in a send (written): the packet
\* after 0xFF has 0x00, and a sequence error is raised only for a packet that
\* does not carry the number next in that order.
C20_SeqWraps ==
    /\ (ym.pc = "data" /\ ym.dir = "recv") => ym.seq = (ym.npk + 1) % 256
    /\ (ym.pc = "data" /\ ym.dir = "send") => ym.seq = ym.npk % 256
    /\ (ym.pc = "failed" /\ ym.why = "Invalid sequence number" /\ ym.last.at = "data")
          => ym.last.seq # (ym.npk + 1) % 256
    /\ ym.pc = "done" =>
          /\ Len(PacketEvents) = ym.npk + 1
          /\ \A k \in 1..Len(PacketEvents) : PacketEvents[k].t = (k - 1) % 256

\* a transfer of 256 data packets has completed, the last of them numbered 0
C20_Witness ==
    /\ ym.pc = "done"
    /\ ym.npk = 256
    /\ PacketEvents[256].t = 255
    /\ PacketEvents[257].t = 0

\* C21: a successful receive of n data packets has written 'C', ACK, 'C',
\* n times ACK, NAK, ACK and nothing else, each after the read it answers:
\* the header packet, then 'ACK' 'C'; each data packet, then ACK; EOT, then
\* NAK; EOT, then ACK; and the flush comes last.
C21_ReceiveWrites ==
    (ym.pc = "done" /\ ym.dir = "recv") =>
        LET n == ym.npk
            log == ym.log
        IN  /\ Len(log) = 2 * n + 9
            /\ log[1] = TxW(CRC_C)
            /\ log[2].k = "rxpkt" /\ log[2].t = 0
            /\ log[3] = TxW(ACK)
            /\ log[4] = TxW(CRC_C)
            /\ \A k \in 1..n :
                  /\ log[2 * k + 3].k = "rxpkt" /\ log[2 * k + 3].t = k % 256
                  /\ log[2 * k + 4] = TxW(ACK)
            /\ SubSeq(log, 2 * n + 5, 2 * n + 9)
                  = <<RxR(EOT), TxW(NAK), RxR(EOT), TxW(ACK), Flush>>

\* a receive of two data packets has completed
C21_Witness ==
    /\ ym.pc = "done" /\ ym.dir = "recv" /\ ym.npk = 2
    /\ LastEv(ym.log) = Flush

\* what the host wrote to the UART, in order
Written == SelectSeq(ym.log, LAMBDA e : e.k \in {"txw", "txpkt"})

\* C22: a completed send of S bytes under the name N has written one SOH
\* packet numbered 0 whose data is "N S" followed by zeros, then ceil(S/D)
\* data packets numbered from 1 with D = 128 below 1024 bytes and D = 1024
\* from there on, the last one filled up with zeros, then EOT twice: three STX
\* packets for 3000 bytes, one STX packet for 1024, eight SOH packets for 1023,
\* no data packet for none.
C22_SendFraming ==
    (ym.pc = "done" /\ ym.dir = "send") =>
        LET S == ym.size
            D == IF S < 1024 THEN 128 ELSE 1024
            n == (S + D - 1) \div D
            h == ym.name \o <<32>> \o Decimal(S)
        IN  /\ Len(Written) = n + 3
            /\ Written[1] = Ev("txpkt", 0, <<SOH>> \o h \o [i \in 1..(128 - Len(h)) |-> 0])
            /\ \A k \in 1..n :
                  Written[k + 1] = Ev("txpkt", k % 256,
                                      <<IF D = 128 THEN SOH ELSE STX,
                                        IF k < n THEN D ELSE S - (n - 1) * D, D>>)
            /\ Written[n + 2] = TxW(EOT) /\ Written[n + 3] = TxW(EOT)
            /\ S = 3000 => (n = 3 /\ Written[2].b[1] = STX)
            /\ S = 1024 => (n = 1 /\ Written[2].b[1] = STX)
            /\ S = 1023 => (n = 8 /\ Written[2].b[1] = SOH)
            /\ S = 0 => n = 0

\* 3000 bytes were sent: 1024, 1024 and 952 of them in three packets
C22_Witness ==
    /\ ym.pc = "done" /\ ym.dir = "send" /\ ym.size = 3000
    /\ ym.npk = 3
    /\ Written[4] = Ev("txpkt", 3, <<STX, 952, LARGE_DATA_SIZE>>)

\* C23: send_file fails with "Filename too long" exactly when name, a space
\* and the decimal size together are longer than 128 bytes, and then nothing
\* was read from or written to the UART; a string of exactly 128 bytes is sent
\* and fills the header data, which then holds no NUL.
C23_FilenameTooLong ==
    (ym.pc # "off" /\ ym.dir = "send") =>
        LET h == ym.name \o <<32>> \o Decimal(ym.size) IN
        /\ (ym.pc = "failed" /\ ym.why = "Filename too long") <=> Len(h) > 128
        /\ Len(h) > 128 => ym.log = <<>>
        /\ (Len(h) = 128 /\ Written # <<>>) =>
              /\ Tail(Written[1].b) = h
              /\ \A i \in 1..128 : h[i] # 0

\* a name of 124 bytes with a size of four digits was refused
C23_Witness ==
    /\ ym.pc = "failed" /\ ym.dir = "send"
    /\ ym.why = "Filename too long"
    /\ Len(ym.name) = 124 /\ ym.size = 3000
    /\ ym.log = <<>>

\* C24: a request whose body does not fit the 20-byte frame (19 bytes or more)
\* ends with the error BodyTooLong returned to its caller, with nothing
\* written to CTL and with the lock released
\* (violated: RawControlMessage::write asserts the length, the caller's task
\* panics and no error value is returned).
C24_BodyTooLong ==
    [][\A p \in Callers :
         (pc[p] = "ctl_send" /\ Len(req[p].b) + 2 > CTL_BUFFER_SIZE /\ pc'[p] # pc[p]) =>
            /\ fin'.p = p
            /\ fin'.res = Err("BodyTooLong", <<>>)
            /\ nextRid' = nextRid
            /\ sessionLock' = None]_vars

\* C25: control framing round-trips: a body of 0..18 bytes of any enumerated
\* type is encoded, and decoding the frame gives back the type and the body;
\* a buffer of 2..20 bytes that decodes is encoded back to the same bytes
C25_ControlRoundTrip ==
    /\ (cx.pc \in {"mid", "out"} /\ cx.in.fn = "write") =>
          /\ cx.mid.st = "ok"
          /\ Len(cx.mid.raw) = Len(cx.in.b) + 2
    /\ (cx.pc = "out" /\ cx.in.fn = "write") =>
          /\ cx.out.st = "ok"
          /\ cx.out.t = cx.in.t
          /\ cx.out.b = cx.in.b
    /\ (cx.pc = "out" /\ cx.in.fn = "read") =>
          /\ cx.out.st = "ok"
          /\ cx.out.raw = cx.in.buf

C25_Witness ==
    /\ cx.pc = "out"
    /\ cx.in.fn = "write"
    /\ Len(cx.in.b) = MaxBody
    /\ cx.out.st = "ok"
    /\ cx.out.b = cx.in.b

\* the nine bytes "123456789", whose CRC-16/ARC is 0xBB3D
CrcCheckInput == [i \in 1..9 |-> 48 + i]

\* C26: a YMODEM packet round-trips for every sequence number and both data
\* lengths, and its frame is the start byte (SOH for 128 bytes, STX for 1024),
\* seq, seq XOR 0xFF, the data, and the CRC-16/ARC of the data, high byte first
C26_PacketRoundTrip ==
    /\ Crc16Arc(CrcCheckInput) = 47933
    /\ (cx.pc \in {"mid", "out"} /\ cx.in.fn = "serialize") =>
          LET raw == cx.mid.raw
              n == Len(cx.in.data)
          IN /\ Len(raw) = n + 5
             /\ raw[1] = (IF n = SMALL_DATA_SIZE THEN SOH ELSE STX)
             /\ raw[2] = cx.in.seq
             /\ raw[3] = Xor(cx.in.seq, 255)
             /\ SubSeq(raw, 4, n + 3) = cx.in.data
             /\ raw[n + 4] * 256 + raw[n + 5] = Crc16Arc(cx.in.data)
             /\ raw[n + 4] < 256 /\ raw[n + 5] < 256
    /\ (cx.pc = "out" /\ cx.in.fn = "serialize") =>
          cx.out = [st |-> "ok", seq |-> cx.in.seq, data |-> cx.in.data]

C26_Witness ==
    /\ cx.pc = "out"
    /\ cx.in.fn = "serialize"
    /\ cx.in.seq = 255
    /\ Len(cx.in.data) = LARGE_DATA_SIZE
    /\ cx.out.st = "ok"

\* C30: decoding a buffer of two bytes or more fails with BadChecksum
\* whenever the XOR of all bytes but the last differs from the last byte, also
\* when the type byte is not an enumerated one; it fails with UnknownType only
\* when the checksum is right and the type is unknown; otherwise it returns the
\* type and the body
\* (violated: the type is converted before the checksum is compared).
C30_ChecksumFirst ==
    (cx.pc \in {"mid", "out"} /\ cx.in.fn = "read" /\ Len(cx.in.buf) >= 2) =>
        LET buf == cx.in.buf
            len == Len(buf)
            sum_ok == buf[len] = calc_checksum(SubSeq(buf, 1, len - 1))
        IN /\ ~sum_ok => (cx.mid.st = "err" /\ cx.mid.why = "BadChecksum")
           /\ (sum_ok /\ buf[1] \notin ControlMessageType) =>
                 (cx.mid.st = "err" /\ cx.mid.why = "UnknownType")
           /\ (sum_ok /\ buf[1] \in ControlMessageType) =>
                 (cx.mid.st = "ok" /\ cx.mid.t = buf[1]
                    /\ cx.mid.b = SubSeq(buf, 2, len - 1))

\* C27: the session caches the header of the first successful JSON read and
\* never replaces it; every JSON write carries exactly the cached header,
\* whatever headers later reads return and whatever payload is written
C27_HeaderCachedOnce ==
    /\ [][/\ (js.json_header # <<>> => js'.json_header = js.json_header)
          /\ (js'.json_header # js.json_header => js'.json_header = js'.first)]_vars
    /\ [](/\ js.json_header = js.first
          /\ \A i \in 1..Len(js.written) :
                LET r == from_str(js.written[i].text) IN
                /\ r.st = "ok"
                /\ <<r.header>> = js.json_header
                /\ r.data = js.written[i].data)

\* after three calls, one write was made and it carries the cached header,
\* here the one of the older firmware
C27_Witness ==
    /\ js.ops = MaxJsonOps
    /\ Len(js.written) = 1
    /\ js.written[1].data = "p2"
    /\ js.json_header # <<>>
    /\ js.json_header[1].updated_at = 2
    /\ \A p \in Callers : js.pc[p] = "idle"

\* C28: at most one UART stream is live per device: an open_stream called
\* while a handle is live is an error and returns no second handle, so that
\* never two live handles can write to TX or take RX frames
\* (violated: open_stream returns a handle whenever it is called).
C28_OneLiveStream ==
    /\ Cardinality(ua.live) <= 1
    /\ \A s \in ua.wrote \cap ua.live, t \in ua.live : s = t

\* C29: an RX frame notified while no stream is open is dropped, and a stream
\* yields only frames that were notified after it was opened
\* (violated: a frame still in rx_recv when the manager takes the new stream
\* is sent to that stream).
C29_StaleFramesDropped ==
    \A s \in StreamIds : \A i \in 1..Len(ua.read[s]) :
        LET f == ua.read[s][i] IN
        /\ ua.opened_at[f] >= s
        /\ ~ua.idle_at[f]

\* C31: expect_ok(ty) succeeds, returning the body, exactly when the type of
\* the message is no error type and equals ty; an error type gives its error
\* kind (ErrStatus with body 0x00 InvalidTransactionStatus, with any other body
\* InvalidFileStatus(body)), also when ty is an error type; another type that
\* is no error type gives a failure
\* (violated: a body that is not UTF-8 aborts the caller in into_result).
C31_ExpectOk ==
    (cx.pc = "mid" /\ cx.in.fn = "expect_ok") =>
        LET t == cx.in.t
            b == cx.in.b
            r == cx.mid
        IN /\ (r.st = "ok") <=> (t \notin ErrorTypes /\ t = cx.in.ty)
           /\ r.st = "ok" => r.b = b
           /\ t = ErrVali => r = Err("Validation", <<>>)
           /\ t = ErrNoFile => r = Err("NoFile", b)
           /\ t = ErrMemory => r = Err("NoMemory", <<>>)
           /\ (t = ErrStatus /\ b = <<0>>) => r = Err("InvalidTransactionStatus", <<>>)
           /\ (t = ErrStatus /\ b # <<0>>) => r = Err("InvalidFileStatus", b)
           /\ t = ErrDecode => r = Err("DecodeFailed", b)
           /\ (t \notin ErrorTypes /\ t # cx.in.ty) => r.st = "err"

\* the writes handed to the BLE layer are, in order, the bytes 1..n
CoversTo(sent, n) ==
    /\ \A i \in 1..Len(sent) : sent[i].lo = (IF i = 1 THEN 1 ELSE sent[i - 1].hi + 1)
    /\ n = (IF sent = <<>> THEN 0 ELSE sent[Len(sent)].hi)

\* C32: every write to TX carries at most MTU (206) bytes and is a write
\* without response; after write_all calls followed by a read or a flush the
\* chunks written are, end to end, the bytes the caller gave, in order, none
\* lost and none twice
C32_ChunksCarryData ==
    /\ \A i \in 1..Len(tx.sent) :
          /\ tx.sent[i].hi - tx.sent[i].lo + 1 <= MTU
          /\ tx.sent[i].hi >= tx.sent[i].lo
          /\ tx.sent[i].kind = "WithoutResponse"
    /\ (tx.pc = "idle" /\ tx.last \in {"flush", "read"} /\ ~tx.failed) =>
          CoversTo(tx.sent, tx.given)

\* two write_all calls of 207 and 413 bytes and a flush: five chunks written
C32_Witness ==
    /\ tx.pc = "idle" /\ tx.last = "flush" /\ ~tx.failed
    /\ tx.calls = 3
    /\ Len(tx.sent) = 5
    /\ tx.given = 3 * MTU + 2

\* C33: a stream has at most one TX write outstanding: a chunk is handed to the
\* BLE layer only when the write before it has ended; a write that failed is
\* reported as an error to the next write, read or flush; a read or a flush
\* does not end while a write is pending
C33_OneWriteOutstanding ==
    /\ [](Len(tx.sent) - tx.done <= 1)
    /\ [][Len(tx'.sent) > Len(tx.sent) => Len(tx.sent) = tx.done]_vars
    /\ [][(tx.fut.st = "err" /\ tx.pc \in {"write_all", "flush", "read"}) =>
             (tx'.pc = "idle" /\ tx'.res = "err")]_vars
    /\ [][(tx.pc \in {"flush", "read"} /\ tx'.pc = "idle" /\ tx'.res = "ok") =>
             (tx'.write_finished /\ Len(tx'.sent) = tx'.done)]_vars

\* a flush that ended with the error of the second chunk
C33_Witness ==
    /\ tx.pc = "idle" /\ tx.last = "flush" /\ tx.res = "err"
    /\ Len(tx.sent) = 2 /\ tx.done = 2

\* the characteristics the transport cannot do without: the three of the
\* streams, the five of the device information, the battery level
Needed ==
    {"tx", "rx", "ctl", "firmware_revision", "manufacturer_name", "model_number",
     "hardware_revision", "serial_number", "battery"}

\* C34: new fails when a required characteristic (TX, RX, CTL, one of the
\* device information, the battery level) is missing after the discovery, and
\* it fails before the pump is started, before any subscription and before
\* anything is written to the device
C34_MissingCharacteristic ==
    (nw.pc # "discover" /\ ~(Needed \subseteq nw.found)
        /\ nw.res # Err("Failed to discover services", <<>>)) =>
       /\ nw.pc = "failed"
       /\ nw.res = Err("Missing characteristic", <<>>)
       /\ nw.log = <<>>

\* the battery level alone is missing
C34_Witness ==
    /\ nw.pc = "failed"
    /\ nw.found = Needed \ {"battery"}
    /\ nw.log = <<>>

\* C35: the pump goes on taking notifications until the stream ends or it is
\* cancelled: no notification, whatever it carries - a battery level that is
\* not one byte, a device information value, an unknown characteristic, a frame
\* for an inbox whose consumer is gone - stops it
\* (violated: the pump asserts that a battery level is one byte long, and the
\* panic ends its task).
C35_PumpSurvivesContent ==
    /\ sh.pump # "panicked"
    /\ (sh.pump = "ended") => (~sh.open /\ sh.pumped = Len(sh.notified))

\* C36: a receive takes for the header only a packet with start byte SOH and
\* sequence number 0: a first packet framed with STX, or with another sequence
\* number, ends the transfer before any ACK is written; of the header the
\* first token is the name and the second the decimal size, and later tokens
\* do not change the size
\* (violated: a header framed with STX is accepted, and every token after the
\* name is parsed as the size, so the last one wins).
C36_HeaderOnlySohSeq0 ==
    (ym.pc # "off" /\ ym.dir = "recv") =>
       /\ (ym.last.at = "header" /\ ym.last.seq # 0) =>
             (ym.pc = "failed" /\ ym.log = <<TxW(CRC_C)>>)
       /\ Len(ym.log) >= 2 =>
             /\ ym.log[2] = Ev("rxpkt", 0, <<SMALL_DATA_SIZE>>)
             /\ Len(ym.tokens) >= 2 => ym.size = DecimalValue(ym.tokens[2])

\* the exchange send_file follows for a file of n data packets: "C", the
\* header packet, ACK, "C", then packet and ACK n times, then EOT, NAK, EOT, ACK
SendStep(i, n) ==
    CASE i = 1 -> RxR(CRC_C)
      [] i = 2 -> TxPkt(0)
      [] i = 3 -> RxR(ACK)
      [] i = 4 -> RxR(CRC_C)
      [] i > 4 /\ i <= 4 + 2 * n ->
            IF i % 2 = 1 THEN TxPkt(((i - 3) \div 2) % 256) ELSE RxR(ACK)
      [] i = 5 + 2 * n -> TxW(EOT)
      [] i = 6 + 2 * n -> RxR(NAK)
      [] i = 7 + 2 * n -> TxW(EOT)
      [] OTHER -> RxR(ACK)

\* C37: in a send every write follows the reads the exchange asks for: the
\* header packet after "C", the first data packet after ACK and "C", each
\* further packet after the ACK of the one before, the first EOT after the
\* last ACK, the second EOT after NAK, success after the final ACK; once a
\* step has failed on another byte nothing more is written.
C37_SendOrder ==
    /\ [](  (ym.pc # "off" /\ ym.dir = "send") =>
            LET S == ym.size
                D == IF S < 1024 THEN 128 ELSE 1024
                n == (S + D - 1) \div D
            IN  /\ Len(ym.log) <= 8 + 2 * n
                /\ \A i \in 1..Len(ym.log) :
                      /\ ym.log[i].k = SendStep(i, n).k
                      /\ ym.log[i].t = SendStep(i, n).t
                /\ ym.pc = "done" => Len(ym.log) = 8 + 2 * n )
    /\ [][ (ym.pc = "failed" /\ ym.dir = "send") => ym' = ym ]_vars
    /\ [][ (ym.pc \in {"header", "data", "eot"} /\ ym.dir = "send"
            /\ ym'.pc = "failed" /\ ym'.why \in {"Expected C", "Expected ACK", "Expected NAK"})
              => ym'.log = ym.log ]_vars

\* the second data packet of a 3000-byte send was answered by NAK: the send
\* failed with two packets written and no EOT
C37_Witness ==
    /\ ym.pc = "failed" /\ ym.dir = "send" /\ ym.why = "Expected ACK"
    /\ ym.size = 3000 /\ ym.npk = 2
    /\ Len(ym.log) = 7 /\ ym.log[7].k = "txpkt"


\* C38: a CTL frame of any length taken by a waiting recv_ctl (empty, shorter
\* than two bytes, longer than the 20-byte buffer) makes the operation return
\* an error, with the calling task alive and both locks released (violated:
\* RawControlMessage::read indexes a frame of less than two bytes and
\* copy_from_slice is given a frame longer than the buffer; both panic).
C38_AnyFrameLengthIsAnError ==
    [][\A p \in Procs :
          (/\ pc[p] \in {"ctl_wait", "idle_wait"}
           /\ ctlInbox # <<>>
           /\ ctlInbox' = Tail(ctlInbox)
           /\ \/ Len(Head(ctlInbox).data) < 2
              \/ Len(Head(ctlInbox).data) > CTL_BUFFER_SIZE)
          => /\ fin'.p = p
             /\ fin'.res.st = "err"
             /\ pc'[p] # "crashed"
             /\ sessionLock' # p
             /\ innerLock' # p]_vars

\* C39: write_json_file writes a file only with a header cached: with none
\* cached it reads the user profile first, a failed read ends it with nothing
\* written; the read and the write take the device lock separately, the lock
\* is free in between and the write waits for it again.
C39_WriteNeedsHeader ==
    /\ [](\A p \in Callers :
            /\ js.pc[p] \in {"write_file", "writing"} =>
                  /\ js.json_header # <<>>
                  /\ js.header[p] = js.json_header
                  /\ js.locks[p] \in (IF js.pc[p] = "writing" THEN {1, 2} ELSE {0, 1})
            /\ (js.op[p] = "write" /\ js.pc[p] \in {"parse", "write_file"}) => js.lock # p
            /\ js.locks[p] <= 2)
    /\ [][\A p \in Callers :
            /\ (js.op[p] = "write" /\ js.pc[p] \in {"reading", "parse"} /\ js'.pc[p] = "idle")
                  => js'.written = js.written
            /\ (js.op[p] = "write" /\ js.pc[p] = "idle" /\ js'.pc[p] # "idle")
                  => js'.pc[p] = (IF js.json_header = <<>> THEN "read_file" ELSE "write_file")
            /\ Len(js'.written) > Len(js.written) => js.json_header # <<>>]_vars

\* caller 1 has read the profile for its write and waits for the lock again,
\* which caller 2 took in between for a read of its own
C39_Witness ==
    /\ js.op[1] = "write" /\ js.pc[1] = "write_file" /\ js.locks[1] = 1
    /\ js.pc[2] = "reading" /\ js.lock = 2

\* caller 1 has called battery_level() or device_info() and stands at the
\* session lock; one more operation is left to be called by the other caller
InitLive ==
    /\ pc = [p \in Procs |-> IF p = Opener THEN "opened" ELSE IF p = 1 THEN "acquire" ELSE "idle"]
    /\ \E o \in PeekOps : op = [p \in Procs |-> IF p = 1 THEN o ELSE "none"]
    /\ req = [p \in Procs |-> NoMsg]
    /\ arg = [p \in Procs |-> <<>>]
    /\ left = [p \in Procs |-> 0]
    /\ seq = [p \in Procs |-> 0]
    /\ trace = [p \in Procs |-> <<>>]
    /\ myRid = [p \in Procs |-> None]
    /\ gotRid = [p \in Procs |-> None]
    /\ fin = NoFin
    /\ faulted = FALSE
    /\ sessionLock = None
    /\ innerLock = None
    /\ streams = {}
    /\ opsStarted = MaxOps - 1
    /\ nextRid = 0
    /\ pending = {}
    /\ transfers = {}
    /\ unsol = 0
    /\ notifications = <<>>
    /\ ctlInbox = <<>>
    /\ ym = YmOff
    /\ sh = ShOff
    /\ cx = Off
    /\ js = Off
    /\ ua = Off
    /\ tx = Off
    /\ nw = Off

\* the task of p can run: it is neither idle nor gone, the mutex it stands at
\* is free, and a wait for a frame ends with the frame or with its timer
Ready(p) ==
    \/ pc[p] = "acquire" /\ MutexFree(sessionLock)
    \/ pc[p] \in {"open_uart", "ctl_send"} /\ MutexFree(innerLock)
    \/ pc[p] \in {"ctl_wait", "idle_wait"} \cup XferPcs

\* the runtime polls a task that can run: weak fairness of the steps of p
TaskFair(p) ==
    \/ []<>(~Ready(p))
    \/ []<><< <<pc'[p], trace'[p], left'[p], seq'[p]>> # <<pc[p], trace[p], left[p], seq[p]>> >>_vars

\* a free mutex is handed to a caller that waits for it; a task that can run
\* is polled
SpecLive ==
    /\ InitLive
    /\ [][Next]_vars
    /\ \A p \in Callers : WF_vars(Acquire(p)) /\ WF_vars(Peek(p))
    /\ \A p \in Callers : TaskFair(p)

\* an operation of p is pending: called and not yet returned
Pending(p) == pc[p] \notin {"idle", "crashed"}

\* the inner lock is held only by the holder of the session lock
C40_LocksOrdered == innerLock # None => sessionLock = innerLock

\* an operation that has ended holds neither lock
C40_ExitReleases ==
    [][\A p \in Callers :
          (Pending(p) /\ ~Pending(p)') => (sessionLock' # p /\ innerLock' # p)]_vars

\* a caller at the session lock gets past it
C40_NoWaitForever ==
    \A p \in Callers : (pc[p] = "acquire") ~> (pc[p] # "acquire")

\* C40: no caller waits forever for a lock and every pending operation ends
\* with a result or an error: the session lock is taken before the inner lock,
\* every exit releases both, a caller at the session lock gets past it
\* (violated in its last part only: a reply that is empty, too long or echoes
\* another name, or a body too long for the buffer, makes the operation panic;
\* it ends with neither a result nor an error).
C40_EveryOperationCompletes ==
    /\ []C40_LocksOrdered
    /\ C40_ExitReleases
    /\ C40_NoWaitForever
    /\ \A p \in Callers : Pending(p) ~> (fin.p = p /\ fin.res.st \in {"ok", "err"})

====
